---- MODULE Spec2Model ----
(***************************************************************************)
(* Stock ledger, order creation and order/shipment lifecycle of the        *)
(* e-commerce backend, as a state machine over the PostgreSQL tables the   *)
(* services read and write.                                                *)
(*                                                                         *)
(* Every request handler is split at its awaits that touch shared rows:    *)
(* a read made before db.transaction(...) is one step, each statement that *)
(* takes a row lock other statements wait for is one step, and the commit  *)
(* (which makes all writes of the transaction visible at once and releases *)
(* its row locks) is one step.  The store runs at READ COMMITTED: a plain  *)
(* SELECT sees the last committed row, an UPDATE / SELECT ... FOR UPDATE   *)
(* waits for the row lock and then works on the latest committed row.      *)
(*                                                                         *)
(* The OrdersService modelled is the one OrdersController drives           *)
(* (create(userId, dto), updateStatus(id, adminUserId, dto),               *)
(* updateTracking(id, adminUserId, dto)): src/unnamed/part_007.  The copy  *)
(* in src/src/orders/orders.service.ts has other signatures                *)
(* (updateStatus(orderId, dto, changedBy)) and is not reachable from the   *)
(* controller; it decrements stock unconditionally and does not check      *)
(* transitions.                                                            *)
(***************************************************************************)
EXTENDS Integers, Sequences, FiniteSets, TLC

\* ------------------------------------------------------------------ bounds
MaxOps == 3          \* requests started in one behaviour
MaxInitQty == 2      \* largest stock a product is created with
MaxLifecycleOps == 4 \* requests started in one behaviour of SpecLifecycle
MaxTime == 2         \* Date.now() runs from 0 to MaxTime

\* --------------------------------------------------------- small universes
Procs == {1, 2}                       \* slots of concurrently served requests
NoProc == {}                          \* rowLock value of a row no one holds
Products == {"P1", "P2"}              \* rows of products
UnknownProduct == "P9"                \* an id with no products row
ProductIds == Products \cup {UnknownProduct}
Prices == {<<0, 99>>, <<2, 50>>}      \* numeric(12,2) values: <<units, hundredths>>
Buyer == "u_cust"

Rows == {"inventory_items", "products"} \X Products

VARIABLES
  products,             \* products table: [status, inventory, price]
  inventoryItems,       \* inventory_items table, keyed by productId: [quantity]
  inventoryAdjustments, \* inventory_adjustments table: sequence of rows
  orders,               \* orders table: sequence, id = index
  orderItems,           \* order_items table: sequence of rows
  orderStatusHistory,   \* order_status_history table: sequence of rows
  shipments,            \* shipments table: sequence of rows
  users,                \* users table: [id -> role]
  rowLock,              \* row locks held by open transactions
  pc,                   \* position of each request handler
  args,                 \* arguments of the request a handler serves
  local,                \* what the handler has read / computed so far
  result,               \* what the handler returned (or threw)
  started,              \* number of requests started
  initialQuantity,      \* quantity each inventory record was created with
  priceHistory,         \* prices each product has had in the catalog
  counterRewritten,     \* products whose inventory counter a catalog update has set
  returned,             \* tally of successful responses
  heldStaffRole,        \* per handler: users who held the staff role at some
                        \* moment since its request arrived
  usersMfa,             \* users table, keyed by email: [passwordHash,
                        \* mfaEnabled, mfaOtpHash, mfaOtpExpiresAt]
  clock,                \* Date.now()
  mailbox,              \* the mails MailerService.sendMfaOtp has sent
  tokens                \* the access tokens signToken has signed

vars == <<products, inventoryItems, inventoryAdjustments, orders, orderItems,
          orderStatusHistory, shipments, users, rowLock, pc, args, local,
          result, started, initialQuantity, priceHistory, counterRewritten,
          returned, heldStaffRole, usersMfa, clock, mailbox, tokens>>

authVars == <<usersMfa, clock, mailbox, tokens>>

dbVars == <<products, inventoryItems, inventoryAdjustments, orders, orderItems,
            orderStatusHistory, shipments, users>>

\* ------------------------------------------------------------------ helpers
RECURSIVE SumSeq(_)
SumSeq(s) == IF s = <<>> THEN 0 ELSE Head(s) + SumSeq(Tail(s))

NoArgs == [productId |-> "none", adjustment |-> 0, items |-> <<>>,
           orderId |-> 0, status |-> "none", staffUserId |-> "none",
           initialQuantity |-> 0, caller |-> "none", shipmentId |-> 0,
           email |-> "none", otp |-> "none"]

NoLocal == [productMap |-> <<>>, itemsWithPrice |-> <<>>, totalCents |-> 0,
            i |-> 0, txDecrement |-> [p \in Products |-> 0],
            newQuantity |-> 0, orderStatus |-> "none",
            user |-> <<>>, otp |-> "none", otpHash |-> <<>>, otpExpiresAt |-> 0]

NoResult == [op |-> "none", outcome |-> "none", orderId |-> 0, status |-> "none",
             record |-> <<>>, request |-> <<>>]

Result(op, outcome) == [NoResult EXCEPT !.op = op, !.outcome = outcome]

\* Math.round(Number(product.price) * 100) on a numeric(12,2) value
PriceCents(price) == price[1] * 100 + price[2]

\* ------------------------------------------------------------- row locking
\* A statement that needs the lock of a row proceeds only when no other
\* transaction holds it.
RowLockFree_Mutant(self, row) == TRUE
RowLockFree(self, row) == rowLock[row] \in {NoProc, {self}}

ReleaseLocks(self) == [r \in Rows |-> rowLock[r] \ {self}]

\* ---------------------------------------------------------------- accounts
MfaUser == "mfa@example.com"          \* registered, MFA enabled
PlainUser == "plain@example.com"      \* registered, MFA disabled
Password == "secret"
NoOtp == <<>>                         \* mfaOtpHash / mfaOtpExpiresAt IS NULL

\* bcrypt.hash(data, 10): the hash carries the salt drawn for it
BcryptHash(data, salt) == <<"bcrypt", salt, data>>

\* bcrypt.compare(data, hash)
BcryptCompare(data, hash) == hash[3] = data

\* the users rows after register(), with MFA switched on for one account
InitAuth ==
  /\ usersMfa = [email \in {MfaUser, PlainUser} |->
                   [passwordHash |-> BcryptHash(Password, 0),
                    mfaEnabled |-> (email = MfaUser),
                    mfaOtpHash |-> NoOtp,
                    mfaOtpExpiresAt |-> NoOtp]]
  /\ clock = 0
  /\ mailbox = <<>>
  /\ tokens = <<>>

\* ------------------------------------------------------------------- Init
Init ==
  /\ \E q \in {f \in [Products -> 1..MaxInitQty] : f["P2"] = MaxInitQty} :
       /\ products = [p \in Products |->
                        [status |-> "active", inventory |-> q[p], price |-> <<0, 99>>]]
       /\ inventoryItems = [p \in Products |-> [quantity |-> q[p]]]
       /\ initialQuantity = q
  /\ inventoryAdjustments = <<>>
  /\ orders = <<>>
  /\ orderItems = <<>>
  /\ orderStatusHistory = <<>>
  /\ shipments = <<>>
  /\ users = [u \in {"u_staff", "u_cust"} |-> IF u = "u_staff" THEN "staff" ELSE "customer"]
  /\ rowLock = [r \in Rows |-> NoProc]
  /\ pc = [self \in Procs |-> "idle"]
  /\ args = [self \in Procs |-> NoArgs]
  /\ local = [self \in Procs |-> NoLocal]
  /\ result = [self \in Procs |-> NoResult]
  /\ started = 0
  /\ priceHistory = [p \in Products |-> {<<0, 99>>}]
  /\ counterRewritten = {}
  /\ returned = [adjustSum |-> [p \in Products |-> 0],
                 adjustCount |-> [p \in Products |-> 0],
                 orderCount |-> 0]
  /\ heldStaffRole = [self \in Procs |-> {}]
  /\ InitAuth

\* a request is served in the lowest free slot
SlotFree(self) ==
  /\ pc[self] = "idle"
  /\ \A other \in Procs : other < self => pc[other] # "idle"

CanStart(self) == SlotFree(self) /\ started < MaxOps

\* the handler returns (or throws) res
Finish(self, res) ==
  /\ pc' = [pc EXCEPT ![self] = "idle"]
  /\ result' = [result EXCEPT ![self] = res]
  /\ local' = [local EXCEPT ![self] = NoLocal]
  /\ args' = [args EXCEPT ![self] = NoArgs]

\* ======================================================== InventoryService
Adjustments == {0 - MaxInitQty, -1, 1}    \* @IsInt() @NotEquals(0)
AdjustTargets == {"P1", UnknownProduct}

\* if (newQuantity < 0) throw
WouldGoNegative_Mutant(newQuantity) == newQuantity < -1
WouldGoNegative(newQuantity) == newQuantity < 0

\* the row adjust inserts into inventory_adjustments
AdjustmentRow_Mutant(productId, adjustment, newQuantity) ==
  [inventoryItemId |-> productId, adjustment |-> newQuantity]
AdjustmentRow(productId, adjustment, newQuantity) ==
  [inventoryItemId |-> productId, adjustment |-> adjustment]

\* adjust(productId, adjustment): the request arrives and opens its transaction
AdjustBegin(self, productId, adjustment) ==
  /\ CanStart(self)
  /\ started' = started + 1
  /\ pc' = [pc EXCEPT ![self] = "adjust_select"]
  /\ args' = [args EXCEPT ![self] = [NoArgs EXCEPT !.productId = productId,
                                                   !.adjustment = adjustment]]
  /\ result' = [result EXCEPT ![self] = NoResult]
  /\ UNCHANGED <<dbVars, rowLock, local, initialQuantity, priceHistory,
                 counterRewritten, returned,
                 heldStaffRole, authVars>>

\* SELECT ... FOR UPDATE, the NotFound check and the newQuantity < 0 check
AdjustSelectForUpdate(self) ==
  /\ pc[self] = "adjust_select"
  /\ LET productId == args[self].productId
         adjustment == args[self].adjustment
     IN IF productId \notin DOMAIN inventoryItems
        THEN /\ Finish(self, Result("adjust", "NotFound"))
             /\ UNCHANGED rowLock
        ELSE /\ RowLockFree(self, <<"inventory_items", productId>>)
             /\ LET item == inventoryItems[productId]
                    newQuantity == item.quantity + adjustment
                IN IF WouldGoNegative(newQuantity)
                   THEN /\ Finish(self, Result("adjust", "InvalidAdjustment"))
                        /\ UNCHANGED rowLock
                   ELSE /\ rowLock' = [rowLock EXCEPT ![<<"inventory_items", productId>>] = {self}]
                        /\ local' = [local EXCEPT ![self] =
                                       [NoLocal EXCEPT !.newQuantity = newQuantity]]
                        /\ pc' = [pc EXCEPT ![self] = "adjust_update"]
                        /\ UNCHANGED <<result, args>>
  /\ UNCHANGED <<dbVars, started, initialQuantity, priceHistory,
                 counterRewritten, returned,
                 heldStaffRole, authVars>>

\* the two UPDATEs, the audit INSERT and the commit
\* "Keep products.inventory in sync": the products row after the UPDATE
SyncedProduct_Mutant(product, newQuantity) == product
SyncedProduct(product, newQuantity) == [product EXCEPT !.inventory = newQuantity]

AdjustCommit(self) ==
  /\ pc[self] = "adjust_update"
  /\ LET productId == args[self].productId
         adjustment == args[self].adjustment
         newQuantity == local[self].newQuantity
     IN /\ RowLockFree(self, <<"products", productId>>)
        /\ inventoryItems' = [inventoryItems EXCEPT ![productId].quantity = newQuantity]
        /\ products' = [products EXCEPT ![productId] = SyncedProduct(@, newQuantity)]
        /\ inventoryAdjustments' = Append(inventoryAdjustments,
               AdjustmentRow(productId, adjustment, newQuantity))
        /\ returned' = [returned EXCEPT !.adjustSum[productId] = @ + adjustment,
                                        !.adjustCount[productId] = @ + 1]
        /\ Finish(self, Result("adjust", "ok"))
  /\ rowLock' = ReleaseLocks(self)
  /\ UNCHANGED <<orders, orderItems, orderStatusHistory, shipments, users,
                 started, initialQuantity, priceHistory, counterRewritten,
                 heldStaffRole, authVars>>

\* ------------------------------------------------- ensureInventory / create
\* the catalog before the second product is created: products and
\* inventory_items hold the row of P1 only
InitCatalog ==
  /\ \E q \in 1..MaxInitQty :
       /\ products = [p \in {"P1"} |->
                        [status |-> "active", inventory |-> q, price |-> <<0, 99>>]]
       /\ inventoryItems = [p \in {"P1"} |-> [quantity |-> q]]
       /\ initialQuantity = [p \in Products |-> IF p = "P1" THEN q ELSE 0]
  /\ inventoryAdjustments = <<>>
  /\ orders = <<>>
  /\ orderItems = <<>>
  /\ orderStatusHistory = <<>>
  /\ shipments = <<>>
  /\ users = [u \in {"u_staff", "u_cust"} |-> IF u = "u_staff" THEN "staff" ELSE "customer"]
  /\ rowLock = [r \in Rows |-> NoProc]
  /\ pc = [self \in Procs |-> "idle"]
  /\ args = [self \in Procs |-> NoArgs]
  /\ local = [self \in Procs |-> NoLocal]
  /\ result = [self \in Procs |-> NoResult]
  /\ started = 0
  /\ priceHistory = [p \in Products |-> {<<0, 99>>}]
  /\ counterRewritten = {}
  /\ returned = [adjustSum |-> [p \in Products |-> 0],
                 adjustCount |-> [p \in Products |-> 0],
                 orderCount |-> 0]
  /\ heldStaffRole = [self \in Procs |-> {}]
  /\ InitAuth

InitialQuantities == {0, MaxInitQty}     \* dto.inventory ?? 0
EnsureTargets == ProductIds
NewProduct == "P2"                       \* the row a create request inserts

\* the inventory_items row as returning() / findFirst hand it back
InventoryRecord(productId, quantity) ==
  [productId |-> productId, quantity |-> quantity]

\* .onConflictDoNothing({ target: inventoryItems.productId }): the INSERT
\* stores a row only when no row of the product is there
InsertStoresRow_Mutant(productId) == TRUE
InsertStoresRow(productId) == productId \notin DOMAIN inventoryItems

\* ProductsService.create(dto) up to the call of ensureInventory: the INSERT
\* into products; a second row with the same sku is a duplicate key
ProductsCreate(self, inventory) ==
  /\ CanStart(self)
  /\ started' = started + 1
  /\ IF NewProduct \in DOMAIN products
     THEN /\ Finish(self, Result("createProduct", "Conflict"))
          /\ UNCHANGED products
     ELSE /\ products' = [p \in DOMAIN products \cup {NewProduct} |->
                IF p = NewProduct
                THEN [status |-> "active", inventory |-> inventory, price |-> <<0, 99>>]
                ELSE products[p]]
          /\ pc' = [pc EXCEPT ![self] = "ensure_insert"]
          /\ args' = [args EXCEPT ![self] =
                [NoArgs EXCEPT !.productId = NewProduct,
                               !.initialQuantity = inventory,
                               !.caller = "createProduct"]]
          /\ result' = [result EXCEPT ![self] = NoResult]
          /\ UNCHANGED local
  /\ UNCHANGED <<inventoryItems, inventoryAdjustments, orders, orderItems,
                 orderStatusHistory, shipments, users, rowLock,
                 initialQuantity, priceHistory, counterRewritten, returned,
                 heldStaffRole, authVars>>

\* ensureInventory(productId, initialQuantity) is called
EnsureInventoryBegin(self, productId, quantity) ==
  /\ CanStart(self)
  /\ started' = started + 1
  /\ pc' = [pc EXCEPT ![self] = "ensure_insert"]
  /\ args' = [args EXCEPT ![self] =
        [NoArgs EXCEPT !.productId = productId, !.initialQuantity = quantity,
                       !.caller = "ensureInventory"]]
  /\ result' = [result EXCEPT ![self] = NoResult]
  /\ UNCHANGED <<dbVars, rowLock, local, initialQuantity, priceHistory,
                 counterRewritten, returned,
                 heldStaffRole, authVars>>

\* INSERT ... ON CONFLICT DO NOTHING RETURNING: product_id references
\* products.id; with a row stored the record is returned, without one the
\* handler goes on to fetch the existing row
EnsureInventoryInsert(self) ==
  /\ pc[self] = "ensure_insert"
  /\ LET productId == args[self].productId
         quantity == args[self].initialQuantity
     IN IF productId \notin DOMAIN products
        THEN /\ Finish(self, Result(args[self].caller, "ForeignKeyViolation"))
             /\ UNCHANGED <<inventoryItems, initialQuantity>>
        ELSE IF InsertStoresRow(productId)
        THEN /\ inventoryItems' =
                  [p \in DOMAIN inventoryItems \cup {productId} |->
                     IF p = productId THEN [quantity |-> quantity]
                     ELSE inventoryItems[p]]
             /\ initialQuantity' = [initialQuantity EXCEPT ![productId] = quantity]
             /\ Finish(self, [Result(args[self].caller, "ok") EXCEPT
                                !.record = InventoryRecord(productId, quantity)])
        ELSE /\ pc' = [pc EXCEPT ![self] = "ensure_fetch"]
             /\ UNCHANGED <<inventoryItems, initialQuantity, args, local, result>>
  /\ UNCHANGED <<products, inventoryAdjustments, orders, orderItems,
                 orderStatusHistory, shipments, users, rowLock, started,
                 priceHistory, counterRewritten, returned,
                 heldStaffRole, authVars>>

\* if (!record): findFirst(where productId) and return existing
EnsureInventoryFetch(self) ==
  /\ pc[self] = "ensure_fetch"
  /\ LET productId == args[self].productId
     IN Finish(self, [Result(args[self].caller, "ok") EXCEPT
                        !.record = InventoryRecord(productId,
                                      inventoryItems[productId].quantity)])
  /\ UNCHANGED <<dbVars, rowLock, started, initialQuantity, priceHistory,
                 counterRewritten, returned,
                 heldStaffRole, authVars>>

CatalogAdjustTargets == {"P1"}

NextCatalog ==
  \/ \E self \in Procs, inventory \in InitialQuantities : ProductsCreate(self, inventory)
  \/ \E self \in Procs, productId \in EnsureTargets, quantity \in InitialQuantities :
        EnsureInventoryBegin(self, productId, quantity)
  \/ \E self \in Procs : EnsureInventoryInsert(self)
  \/ \E self \in Procs : EnsureInventoryFetch(self)
  \/ \E self \in Procs, productId \in CatalogAdjustTargets, adjustment \in Adjustments :
        AdjustBegin(self, productId, adjustment)
  \/ \E self \in Procs : AdjustSelectForUpdate(self)
  \/ \E self \in Procs : AdjustCommit(self)

SpecCatalog == InitCatalog /\ [][NextCatalog]_vars

\* ========================================================== ProductsService
\* dto.price is the value dto.price.toFixed(2) stores
ProductUpdates ==
  { [set |-> {"price"}, price |-> <<2, 50>>, status |-> "active", inventory |-> 0],
    [set |-> {"status"}, price |-> <<0, 99>>, status |-> "inactive", inventory |-> 0],
    [set |-> {"inventory"}, price |-> <<0, 99>>, status |-> "active", inventory |-> MaxInitQty] }

UpdateTargets == {"P1"}

\* update(id, dto): one UPDATE of the columns the dto names (autocommit); the
\* UPDATE waits while an open transaction holds the row
ProductsUpdate(self, id, dto) ==
  /\ CanStart(self)
  /\ started' = started + 1
  /\ rowLock[<<"products", id>>] = NoProc
  /\ products' = [products EXCEPT ![id] =
        [status |-> IF "status" \in dto.set THEN dto.status ELSE @.status,
         inventory |-> IF "inventory" \in dto.set THEN dto.inventory ELSE @.inventory,
         price |-> IF "price" \in dto.set THEN dto.price ELSE @.price]]
  /\ priceHistory' = [priceHistory EXCEPT ![id] = @ \cup {products'[id].price}]
  /\ counterRewritten' = IF "inventory" \in dto.set
                         THEN counterRewritten \cup {id} ELSE counterRewritten
  /\ Finish(self, Result("updateProduct", "ok"))
  /\ UNCHANGED <<inventoryItems, inventoryAdjustments, orders, orderItems,
                 orderStatusHistory, shipments, users, rowLock,
                 initialQuantity, returned,
                 heldStaffRole, authVars>>

\* ============================================================ OrdersService
Item(productId, quantity) ==
  [productId |-> productId, quantity |-> quantity,
   clientPrice |-> 1]          \* whatever price the caller put in the request

OrderDtos ==
  { <<Item("P1", 1)>>,
    <<Item("P1", MaxInitQty)>>,
    <<Item("P1", 1), Item("P2", 1)>>,
    <<Item("P2", 1), Item("P1", 1)>>,
    <<Item("P1", 1), Item("P1", 1)>>,
    <<Item(UnknownProduct, 1)>> }

\* the validation loop over dto.items: the first item that fails decides
RECURSIVE ValidateItems(_, _)
ValidateItems(items, productMap) ==
  IF items = <<>> THEN "ok"
  ELSE LET item == Head(items)
       IN IF item.productId \notin DOMAIN productMap THEN "NotFound"
          ELSE IF productMap[item.productId].status # "active" THEN "InvalidState"
          ELSE IF productMap[item.productId].inventory < item.quantity
               THEN "InsufficientStock"
          ELSE ValidateItems(Tail(items), productMap)

\* const unitPriceCents = Math.round(Number(product.price) * 100)
UnitPriceCents_Mutant(item, productMap) == item.clientPrice
UnitPriceCents(item, productMap) == PriceCents(productMap[item.productId].price)

ItemsWithPrice(items, productMap) ==
  [i \in 1..Len(items) |->
     [productId |-> items[i].productId,
      quantity |-> items[i].quantity,
      unitPriceCents |-> UnitPriceCents(items[i], productMap)]]

TotalCents(itemsWithPrice) ==
  SumSeq([i \in 1..Len(itemsWithPrice) |->
            itemsWithPrice[i].unitPriceCents * itemsWithPrice[i].quantity])

\* create(userId, dto) up to db.transaction: the SELECT of the products, the
\* validation loop and the price computation
CreateOrderBegin(self, dto) ==
  /\ CanStart(self)
  /\ started' = started + 1
  /\ LET productIds == {dto[i].productId : i \in 1..Len(dto)}
         productMap == [p \in productIds \cap DOMAIN products |-> products[p]]
         verdict == ValidateItems(dto, productMap)
     IN IF verdict # "ok"
        THEN Finish(self, Result("createOrder", verdict))
        ELSE /\ pc' = [pc EXCEPT ![self] = "create_reserve"]
             /\ args' = [args EXCEPT ![self] = [NoArgs EXCEPT !.items = dto]]
             /\ result' = [result EXCEPT ![self] = NoResult]
             /\ local' = [local EXCEPT ![self] =
                   [NoLocal EXCEPT !.productMap = productMap,
                                   !.itemsWithPrice = ItemsWithPrice(dto, productMap),
                                   !.totalCents = TotalCents(ItemsWithPrice(dto, productMap)),
                                   !.i = 1]]
  /\ UNCHANGED <<dbVars, rowLock, initialQuantity, priceHistory, counterRewritten,
                 returned,
                 heldStaffRole, authVars>>

\* products.inventory as the statements of this transaction see it: the
\* committed row less the transaction's own earlier decrements
VisibleInventory_Mutant(self, productId) == products[productId].inventory
VisibleInventory(self, productId) ==
  products[productId].inventory - local[self].txDecrement[productId]

\* the WHERE clause of the conditional decrement
DecrementApplies_Mutant(self, item) == TRUE
DecrementApplies(self, item) ==
  VisibleInventory(self, item.productId) >= item.quantity

\* the products table after a transaction that throws: its own decrements
\* are rolled back
RolledBack_Mutant(self, table) ==
  [p \in Products |-> [table[p] EXCEPT !.inventory = @ - local[self].txDecrement[p]]]
RolledBack(self, table) == table

\* one iteration of the reservation loop: UPDATE products SET inventory =
\* inventory - quantity WHERE id = productId AND inventory >= quantity
CreateOrderReserve(self) ==
  /\ pc[self] = "create_reserve"
  /\ local[self].i <= Len(args[self].items)
  /\ LET item == args[self].items[local[self].i]
     IN /\ RowLockFree(self, <<"products", item.productId>>)
        /\ IF DecrementApplies(self, item)
           THEN /\ rowLock' = [rowLock EXCEPT ![<<"products", item.productId>>] = {self}]
                /\ local' = [local EXCEPT
                      ![self].txDecrement[item.productId] = @ + item.quantity,
                      ![self].i = @ + 1]
                /\ UNCHANGED <<pc, result, args, products>>
           ELSE /\ rowLock' = ReleaseLocks(self)
                /\ products' = RolledBack(self, products)
                /\ Finish(self, Result("createOrder", "StockChanged"))
  /\ UNCHANGED <<inventoryItems, inventoryAdjustments, orders, orderItems,
                 orderStatusHistory, shipments, users, started,
                 initialQuantity, priceHistory, counterRewritten, returned,
                 heldStaffRole, authVars>>

\* "Record initial status in audit trail": the row create inserts into
\* order_status_history
InitialHistoryRow_Mutant(orderId, userId) ==
  [orderId |-> orderId, status |-> "PAID",
   note |-> "Order created", changedBy |-> userId]
InitialHistoryRow(orderId, userId) ==
  [orderId |-> orderId, status |-> "PENDING_PAYMENT",
   note |-> "Order created", changedBy |-> userId]

\* after the loop: INSERT the order, its items and the initial history row; commit
CreateOrderCommit(self) ==
  /\ pc[self] = "create_reserve"
  /\ local[self].i > Len(args[self].items)
  /\ LET orderId == Len(orders) + 1
         itemsWithPrice == local[self].itemsWithPrice
     IN /\ orders' = Append(orders,
              [userId |-> Buyer, status |-> "PENDING_PAYMENT",
               totalAmount |-> local[self].totalCents,
               trackingNumber |-> "none", carrier |-> "none"])
        /\ orderItems' = orderItems \o
              [i \in 1..Len(itemsWithPrice) |->
                 [orderId |-> orderId,
                  productId |-> itemsWithPrice[i].productId,
                  quantity |-> itemsWithPrice[i].quantity,
                  unitPrice |-> itemsWithPrice[i].unitPriceCents]]
        /\ orderStatusHistory' = Append(orderStatusHistory,
              InitialHistoryRow(orderId, Buyer))
  /\ products' = [p \in Products |->
        [products[p] EXCEPT !.inventory = @ - local[self].txDecrement[p]]]
  /\ rowLock' = ReleaseLocks(self)
  /\ returned' = [returned EXCEPT !.orderCount = @ + 1]
  /\ Finish(self, Result("createOrder", "ok"))
  /\ UNCHANGED <<inventoryItems, inventoryAdjustments, shipments, users,
                 started, initialQuantity, priceHistory, counterRewritten,
                 heldStaffRole, authVars>>

\* --------------------------------------------- order lifecycle (part_007)
ORDER_STATUSES == {"PENDING_PAYMENT", "PAID", "PROCESSING", "SHIPPED",
                   "DELIVERED", "CANCELLED", "REFUNDED", "FAILED"}

STATUS_TRANSITIONS ==
  [current \in ORDER_STATUSES |->
     CASE current = "PENDING_PAYMENT" -> {"PAID", "CANCELLED", "FAILED"}
       [] current = "PAID"            -> {"PROCESSING", "CANCELLED", "REFUNDED"}
       [] current = "PROCESSING"      -> {"SHIPPED", "CANCELLED"}
       [] current = "SHIPPED"         -> {"DELIVERED", "FAILED"}
       [] current = "DELIVERED"       -> {"REFUNDED"}
       [] current = "CANCELLED"       -> {}
       [] current = "REFUNDED"        -> {}
       [] current = "FAILED"          -> {"PROCESSING"}]

Admin == "u_admin"

CanStartLifecycle(self) == SlotFree(self) /\ started < MaxLifecycleOps

\* allowedNext.includes(dto.status)
TransitionAllowed_Mutant(currentStatus, status) == TRUE
TransitionAllowed(currentStatus, status) ==
  status \in STATUS_TRANSITIONS[currentStatus]

\* updateStatus(orderId, adminUserId, dto) up to db.transaction: the SELECT of
\* the order, the NotFound check and the transition check
UpdateStatusBegin(self, orderId, status) ==
  /\ CanStartLifecycle(self)
  /\ started' = started + 1
  /\ IF orderId \notin DOMAIN orders
     THEN Finish(self, [Result("updateStatus", "NotFound")
                          EXCEPT !.orderId = orderId, !.status = status])
     ELSE LET currentStatus == orders[orderId].status
          IN IF ~TransitionAllowed(currentStatus, status)
             THEN Finish(self, [Result("updateStatus", "InvalidTransition")
                                  EXCEPT !.orderId = orderId, !.status = status])
             ELSE /\ pc' = [pc EXCEPT ![self] = "status_tx"]
                  /\ args' = [args EXCEPT ![self] =
                        [NoArgs EXCEPT !.orderId = orderId, !.status = status]]
                  /\ local' = [local EXCEPT ![self] =
                        [NoLocal EXCEPT !.orderStatus = currentStatus]]
                  /\ result' = [result EXCEPT ![self] = NoResult]
  /\ UNCHANGED <<dbVars, rowLock, initialQuantity, priceHistory, counterRewritten,
                 returned,
                 heldStaffRole, authVars>>

\* .set({ status: dto.status, updatedAt }) on the orders row
StatusUpdatedRow_Mutant(order, status) ==
  [order EXCEPT !.status = status,
                !.totalAmount = IF status = "REFUNDED" THEN 0 ELSE @]
StatusUpdatedRow(order, status) == [order EXCEPT !.status = status]

\* the row updateStatus inserts into order_status_history; the note names
\* the status read before the transaction and the new one
StatusHistoryRow_Mutant(orderId, currentStatus, status) ==
  [orderId |-> orderId, status |-> currentStatus,
   note |-> "Status changed", changedBy |-> Admin]
StatusHistoryRow(orderId, currentStatus, status) ==
  [orderId |-> orderId, status |-> status,
   note |-> "Status changed", changedBy |-> Admin]

\* the transaction of updateStatus: UPDATE orders SET status, INSERT history
UpdateStatusCommit(self) ==
  /\ pc[self] = "status_tx"
  /\ LET orderId == args[self].orderId
         status == args[self].status
     IN /\ orders' = [orders EXCEPT ![orderId] = StatusUpdatedRow(@, status)]
        /\ orderStatusHistory' = Append(orderStatusHistory,
              StatusHistoryRow(orderId, local[self].orderStatus, status))
        /\ Finish(self, [Result("updateStatus", "ok")
                           EXCEPT !.orderId = orderId, !.status = status])
  /\ UNCHANGED <<products, inventoryItems, inventoryAdjustments, orderItems,
                 shipments, users, rowLock, started, initialQuantity,
                 priceHistory, counterRewritten, returned,
                 heldStaffRole, authVars>>

\* updateTracking(orderId, adminUserId, dto) up to db.transaction
UpdateTrackingBegin(self, orderId) ==
  /\ CanStartLifecycle(self)
  /\ started' = started + 1
  /\ IF orderId \notin DOMAIN orders
     THEN Finish(self, [Result("updateTracking", "NotFound") EXCEPT !.orderId = orderId])
     ELSE /\ pc' = [pc EXCEPT ![self] = "tracking_tx"]
          /\ args' = [args EXCEPT ![self] = [NoArgs EXCEPT !.orderId = orderId]]
          /\ local' = [local EXCEPT ![self] =
                [NoLocal EXCEPT !.orderStatus = orders[orderId].status]]
          /\ result' = [result EXCEPT ![self] = NoResult]
  /\ UNCHANGED <<dbVars, rowLock, initialQuantity, priceHistory, counterRewritten,
                 returned,
                 heldStaffRole, authVars>>

\* .set({ trackingNumber, carrier, updatedAt }) on the orders row
TrackedOrderRow_Mutant(order) ==
  [order EXCEPT !.trackingNumber = "TRK-1", !.carrier = "FedEx",
                !.status = "SHIPPED"]
TrackedOrderRow(order) ==
  [order EXCEPT !.trackingNumber = "TRK-1", !.carrier = "FedEx"]

\* the transaction of updateTracking: UPDATE orders SET trackingNumber, carrier;
\* INSERT a history row carrying the status read before the transaction
UpdateTrackingCommit(self) ==
  /\ pc[self] = "tracking_tx"
  /\ LET orderId == args[self].orderId
     IN /\ orders' = [orders EXCEPT ![orderId] = TrackedOrderRow(@)]
        /\ orderStatusHistory' = Append(orderStatusHistory,
              [orderId |-> orderId, status |-> local[self].orderStatus,
               note |-> "Tracking updated", changedBy |-> Admin])
        /\ Finish(self, [Result("updateTracking", "ok") EXCEPT !.orderId = orderId])
  /\ UNCHANGED <<products, inventoryItems, inventoryAdjustments, orderItems,
                 shipments, users, rowLock, started, initialQuantity,
                 priceHistory, counterRewritten, returned,
                 heldStaffRole, authVars>>

\* ========================================================= ShipmentsService
\* now() and new Date() are read off the count of requests received so far
StaffInputs == {"u_staff", "u_cust", "u_none"}

\* the users who hold the staff role now
StaffNow == {u \in DOMAIN users : users[u] = "staff"}

\* staffUser.role !== 'staff'
IsStaffRole_Mutant(role) == TRUE
IsStaffRole(role) == role = "staff"

\* ['PAID', 'PROCESSING'].includes(order.status)
ShippableStatus_Mutant(status) == status # "CANCELLED"
ShippableStatus(status) == status \in {"PAID", "PROCESSING"}

\* create(dto), step 1: the SELECT of the order, NotFound and the PAID /
\* PROCESSING check
ShipmentCreateBegin(self, orderId, staffUserId) ==
  /\ CanStartLifecycle(self)
  /\ started' = started + 1
  /\ IF orderId \notin DOMAIN orders
     THEN Finish(self, [Result("createShipment", "NotFound") EXCEPT !.orderId = orderId])
     ELSE IF ~ShippableStatus(orders[orderId].status)
     THEN Finish(self, [Result("createShipment", "InvalidState") EXCEPT !.orderId = orderId])
     ELSE /\ pc' = [pc EXCEPT ![self] = "shipment_existing"]
          /\ args' = [args EXCEPT ![self] =
                [NoArgs EXCEPT !.orderId = orderId, !.staffUserId = staffUserId]]
          /\ local' = [local EXCEPT ![self] =
                [NoLocal EXCEPT !.orderStatus = orders[orderId].status]]
          /\ result' = [result EXCEPT ![self] = NoResult]
  /\ heldStaffRole' = [heldStaffRole EXCEPT ![self] = StaffNow]
  /\ UNCHANGED <<dbVars, rowLock, initialQuantity, priceHistory, counterRewritten,
                 returned, authVars>>

ShipmentExists(orderId) ==
  \E k \in 1..Len(shipments) : shipments[k].orderId = orderId

\* create(dto), step 2: the SELECT of an existing shipment of the order
ShipmentCheckExisting(self) ==
  /\ pc[self] = "shipment_existing"
  /\ IF ShipmentExists(args[self].orderId)
     THEN Finish(self, [Result("createShipment", "AlreadyExists")
                          EXCEPT !.orderId = args[self].orderId])
     ELSE /\ pc' = [pc EXCEPT ![self] = "shipment_staff"]
          /\ UNCHANGED <<args, local, result>>
  /\ UNCHANGED <<dbVars, rowLock, started, initialQuantity, priceHistory,
                 counterRewritten, returned,
                 heldStaffRole, authVars>>

\* create(dto), step 3: the SELECT of the staff user and the role check
ShipmentCheckStaff(self) ==
  /\ pc[self] = "shipment_staff"
  /\ LET staffUserId == args[self].staffUserId
     IN IF staffUserId \notin DOMAIN users
        THEN Finish(self, [Result("createShipment", "NotFound")
                             EXCEPT !.orderId = args[self].orderId])
        ELSE IF ~IsStaffRole(users[staffUserId])
        THEN Finish(self, [Result("createShipment", "InvalidAssignee")
                             EXCEPT !.orderId = args[self].orderId])
        ELSE /\ pc' = [pc EXCEPT ![self] = "shipment_tx"]
             /\ UNCHANGED <<args, local, result>>
  /\ UNCHANGED <<dbVars, rowLock, started, initialQuantity, priceHistory,
                 counterRewritten, returned,
                 heldStaffRole, authVars>>

\* "order_id" uuid NOT NULL UNIQUE: the INSERT is refused when a row with the
\* same order_id is there
OrderIdUnique_Mutant(orderId) == TRUE
OrderIdUnique(orderId) == ~ShipmentExists(orderId)

\* create(dto), step 4: the transaction. INSERT the shipment; when the order
\* read in step 1 was PAID, UPDATE it to PROCESSING and INSERT a history row
ShipmentCreateCommit(self) ==
  /\ pc[self] = "shipment_tx"
  /\ LET orderId == args[self].orderId
     IN IF ~OrderIdUnique(orderId)
        THEN /\ Finish(self, [Result("createShipment", "UniqueViolation")
                                EXCEPT !.orderId = orderId])
             /\ UNCHANGED <<shipments, orders, orderStatusHistory>>
        ELSE /\ shipments' = Append(shipments,
                   [orderId |-> orderId, staffUserId |-> args[self].staffUserId,
                    status |-> "ASSIGNED", assignedAt |-> started])
             /\ IF local[self].orderStatus = "PAID"
                THEN /\ orders' = [orders EXCEPT ![orderId].status = "PROCESSING"]
                     /\ orderStatusHistory' = Append(orderStatusHistory,
                           [orderId |-> orderId, status |-> "PROCESSING",
                            note |-> "Shipment created", changedBy |-> "none"])
                ELSE UNCHANGED <<orders, orderStatusHistory>>
             /\ Finish(self, [Result("createShipment", "ok") EXCEPT !.orderId = orderId])
  /\ UNCHANGED <<products, inventoryItems, inventoryAdjustments, orderItems,
                 users, rowLock, started, initialQuantity, priceHistory,
                 counterRewritten, returned,
                 heldStaffRole, authVars>>

\* --------------------------------------------------------------- reassign
ShipmentIdInputs == {1, 2}            \* 2: an id with no shipments row

\* shipment.status !== 'ASSIGNED'
ReassignableStatus_Mutant(status) == status # "DELIVERED"
ReassignableStatus(status) == status = "ASSIGNED"

\* reassign(shipmentId, dto), step 1: the SELECT of the shipment, NotFound
\* and the ASSIGNED check
ReassignBegin(self, shipmentId, staffUserId) ==
  /\ CanStartLifecycle(self)
  /\ started' = started + 1
  /\ heldStaffRole' = [heldStaffRole EXCEPT ![self] = StaffNow]
  /\ IF shipmentId \notin DOMAIN shipments
     THEN Finish(self, Result("reassign", "NotFound"))
     ELSE IF ~ReassignableStatus(shipments[shipmentId].status)
     THEN Finish(self, [Result("reassign", "InvalidState")
                          EXCEPT !.record = shipments[shipmentId]])
     ELSE /\ pc' = [pc EXCEPT ![self] = "reassign_staff"]
          /\ args' = [args EXCEPT ![self] =
                [NoArgs EXCEPT !.shipmentId = shipmentId, !.staffUserId = staffUserId]]
          /\ result' = [result EXCEPT ![self] = NoResult]
          /\ UNCHANGED local
  /\ UNCHANGED <<dbVars, rowLock, initialQuantity, priceHistory, counterRewritten,
                 returned, authVars>>

\* reassign, step 2: the SELECT of the new staff user and the role check
ReassignCheckStaff(self) ==
  /\ pc[self] = "reassign_staff"
  /\ LET staffUserId == args[self].staffUserId
     IN IF staffUserId \notin DOMAIN users
        THEN Finish(self, Result("reassign", "NotFound"))
        ELSE IF ~IsStaffRole(users[staffUserId])
        THEN Finish(self, Result("reassign", "InvalidAssignee"))
        ELSE /\ pc' = [pc EXCEPT ![self] = "reassign_update"]
             /\ UNCHANGED <<args, local, result>>
  /\ UNCHANGED <<dbVars, rowLock, started, initialQuantity, priceHistory,
                 counterRewritten, returned, heldStaffRole, authVars>>

\* the columns reassign's UPDATE sets
ReassignedRow(shipment, staffUserId, now) ==
  [shipment EXCEPT !.staffUserId = staffUserId, !.assignedAt = now]

\* reassign, step 3: UPDATE shipments SET staffUserId, assignedAt, updatedAt
\* WHERE id = shipmentId
ReassignCommit(self) ==
  /\ pc[self] = "reassign_update"
  /\ LET shipmentId == args[self].shipmentId
     IN /\ shipments' = [shipments EXCEPT ![shipmentId] =
                           ReassignedRow(@, args[self].staffUserId, started)]
        /\ Finish(self, [Result("reassign", "ok") EXCEPT !.record = shipments'[shipmentId]])
  /\ UNCHANGED <<products, inventoryItems, inventoryAdjustments, orders,
                 orderItems, orderStatusHistory, users, rowLock, started,
                 initialQuantity, priceHistory, counterRewritten, returned,
                 heldStaffRole, authVars>>

\* ------------------------------------------------- shipment status machine
SHIPMENT_STATUSES == {"ASSIGNED", "IN_TRANSIT", "DELIVERED", "FAILED", "RETURNED"}

SHIPMENT_STATUS_TRANSITIONS_Mutant ==
  [current \in SHIPMENT_STATUSES |->
     CASE current = "ASSIGNED"   -> {"IN_TRANSIT", "FAILED"}
       [] current = "IN_TRANSIT" -> {"DELIVERED", "FAILED"}
       [] current = "FAILED"     -> {"RETURNED", "IN_TRANSIT"}
       [] current = "DELIVERED"  -> {"RETURNED"}
       [] current = "RETURNED"   -> {}]
SHIPMENT_STATUS_TRANSITIONS ==
  [current \in SHIPMENT_STATUSES |->
     CASE current = "ASSIGNED"   -> {"IN_TRANSIT", "FAILED"}
       [] current = "IN_TRANSIT" -> {"DELIVERED", "FAILED"}
       [] current = "FAILED"     -> {"RETURNED", "IN_TRANSIT"}
       [] current = "DELIVERED"  -> {}
       [] current = "RETURNED"   -> {}]

\* transition(shipmentId, targetStatus): NotFound without the shipment,
\* InvalidTransition unless the target is an allowed next status of the
\* current one, else the status is set
TransitionShipment(self, shipmentId, status) ==
  /\ CanStartLifecycle(self)
  /\ started' = started + 1
  /\ IF shipmentId \notin DOMAIN shipments
     THEN /\ Finish(self, [Result("transitionShipment", "NotFound")
                             EXCEPT !.status = status])
          /\ UNCHANGED shipments
     ELSE IF status \notin SHIPMENT_STATUS_TRANSITIONS[shipments[shipmentId].status]
     THEN /\ Finish(self, [Result("transitionShipment", "InvalidTransition")
                             EXCEPT !.status = status,
                                    !.record = shipments[shipmentId]])
          /\ UNCHANGED shipments
     ELSE /\ shipments' = [shipments EXCEPT ![shipmentId].status = status]
          /\ Finish(self, [Result("transitionShipment", "ok")
                             EXCEPT !.status = status,
                                    !.record = shipments[shipmentId]])
  /\ UNCHANGED <<products, inventoryItems, inventoryAdjustments, orders,
                 orderItems, orderStatusHistory, users, rowLock,
                 initialQuantity, priceHistory, counterRewritten, returned,
                 heldStaffRole, authVars>>

\* ------------------------------------------------------------ UsersService
Roles == {"admin", "staff", "customer"}   \* @IsIn([...])

\* updateRole(id, role): one UPDATE of users.role; NotFound without the row
UsersUpdateRole(self, id, role) ==
  /\ CanStartLifecycle(self)
  /\ started' = started + 1
  /\ IF id \notin DOMAIN users
     THEN /\ Finish(self, Result("updateRole", "NotFound"))
          /\ UNCHANGED <<users, heldStaffRole>>
     ELSE /\ users' = [users EXCEPT ![id] = role]
          /\ heldStaffRole' = IF role = "staff"
                              THEN [other \in Procs |-> heldStaffRole[other] \cup {id}]
                              ELSE heldStaffRole
          /\ Finish(self, Result("updateRole", "ok"))
  /\ UNCHANGED <<products, inventoryItems, inventoryAdjustments, orders,
                 orderItems, orderStatusHistory, shipments, rowLock,
                 initialQuantity, priceHistory, counterRewritten, returned, authVars>>

\* ============================================================== AuthService
otpTtlMs == 1                          \* time is counted in units of 5 minutes
Otps == {"111111", "222222"}           \* randomInt(0, 1_000_000), padded
Emails == {MfaUser, PlainUser, "nobody@example.com"}
Passwords == {Password, "guess"}

\* if (user.mfaEnabled)
MfaRequired_Mutant(user) == user.mfaEnabled /\ user.mfaOtpHash # NoOtp
MfaRequired(user) == user.mfaEnabled

\* login(dto) up to setMfaOtp: findByEmail, bcrypt.compare of the password,
\* and for an MFA user generateOtp, bcrypt.hash and the expiry; for another
\* user getUserRoles and signToken
LoginBegin(self, email, password, otp) ==
  /\ CanStart(self)
  /\ started' = started + 1
  /\ IF email \notin DOMAIN usersMfa
     THEN /\ Finish(self, [Result("login", "Unauthorized") EXCEPT !.request = email])
          /\ UNCHANGED tokens
     ELSE LET user == usersMfa[email]
          IN IF ~BcryptCompare(password, user.passwordHash)
             THEN /\ Finish(self, [Result("login", "Unauthorized")
                                     EXCEPT !.request = email])
                  /\ UNCHANGED tokens
             ELSE IF MfaRequired(user)
             THEN /\ pc' = [pc EXCEPT ![self] = "login_set_otp"]
                  /\ args' = [args EXCEPT ![self] = [NoArgs EXCEPT !.email = email]]
                  /\ local' = [local EXCEPT ![self] =
                        [NoLocal EXCEPT !.user = user, !.otp = otp,
                                        !.otpHash = BcryptHash(otp, started'),
                                        !.otpExpiresAt = clock + otpTtlMs]]
                  /\ result' = [result EXCEPT ![self] = NoResult]
                  /\ UNCHANGED tokens
             ELSE /\ tokens' = Append(tokens,
                        [email |-> email, via |-> "login", otpHash |-> NoOtp])
                  /\ Finish(self, [Result("login", "accessToken")
                                     EXCEPT !.request = email])
  /\ UNCHANGED <<dbVars, rowLock, initialQuantity, priceHistory, counterRewritten,
                 returned, heldStaffRole, usersMfa, clock, mailbox>>

\* setMfaOtp(email, otpHash, otpExpiresAt)
LoginSetOtp(self) ==
  /\ pc[self] = "login_set_otp"
  /\ usersMfa' = [usersMfa EXCEPT
        ![args[self].email].mfaOtpHash = local[self].otpHash,
        ![args[self].email].mfaOtpExpiresAt = <<local[self].otpExpiresAt>>]
  /\ pc' = [pc EXCEPT ![self] = "login_send_otp"]
  /\ UNCHANGED <<dbVars, rowLock, args, local, result, started, initialQuantity,
                 priceHistory, counterRewritten, returned, heldStaffRole,
                 clock, mailbox, tokens>>

\* sendMfaOtp(email, otp); return { mfaRequired: true }
LoginSendOtp(self) ==
  /\ pc[self] = "login_send_otp"
  /\ mailbox' = Append(mailbox, [email |-> args[self].email, otp |-> local[self].otp])
  /\ Finish(self, [Result("login", "mfaRequired") EXCEPT
                     !.request = args[self].email,
                     !.record = local[self].otpHash])
  /\ UNCHANGED <<dbVars, rowLock, started, initialQuantity, priceHistory,
                 counterRewritten, returned, heldStaffRole, usersMfa, clock, tokens>>

\* user.mfaOtpExpiresAt.getTime() < Date.now()
OtpExpired(user, time) == user.mfaOtpExpiresAt[1] < time

\* verifyMfa(dto) up to its next await: findByEmail, the checks of the row
\* and the expiry check
VerifyMfaBegin(self, email, otp) ==
  /\ CanStart(self)
  /\ started' = started + 1
  /\ IF \/ email \notin DOMAIN usersMfa
        \/ ~usersMfa[email].mfaEnabled
        \/ usersMfa[email].mfaOtpHash = NoOtp
        \/ usersMfa[email].mfaOtpExpiresAt = NoOtp
     THEN Finish(self, [Result("verifyMfa", "Unauthorized") EXCEPT !.request = email])
     ELSE /\ pc' = [pc EXCEPT ![self] =
                IF OtpExpired(usersMfa[email], clock)
                THEN "verify_clear_expired" ELSE "verify_compare"]
          /\ args' = [args EXCEPT ![self] = [NoArgs EXCEPT !.email = email, !.otp = otp]]
          /\ local' = [local EXCEPT ![self] = [NoLocal EXCEPT !.user = usersMfa[email]]]
          /\ result' = [result EXCEPT ![self] = NoResult]
  /\ UNCHANGED <<dbVars, rowLock, initialQuantity, priceHistory, counterRewritten,
                 returned, heldStaffRole, authVars>>

\* the row after clearMfaOtp(email)
ClearedOtp_Mutant(user) == user
ClearedOtp(user) == [user EXCEPT !.mfaOtpHash = NoOtp, !.mfaOtpExpiresAt = NoOtp]

\* the expired branch: clearMfaOtp, then throw
VerifyMfaClearExpired(self) ==
  /\ pc[self] = "verify_clear_expired"
  /\ usersMfa' = [usersMfa EXCEPT ![args[self].email] = ClearedOtp(@)]
  /\ Finish(self, [Result("verifyMfa", "Unauthorized") EXCEPT
                     !.request = args[self].email,
                     !.record = local[self].user.mfaOtpHash])
  /\ UNCHANGED <<dbVars, rowLock, started, initialQuantity, priceHistory,
                 counterRewritten, returned, heldStaffRole, clock, mailbox, tokens>>

\* bcrypt.compare(dto.otp, user.mfaOtpHash) on the row read at the start
VerifyMfaCompare(self) ==
  /\ pc[self] = "verify_compare"
  /\ IF ~BcryptCompare(args[self].otp, local[self].user.mfaOtpHash)
     THEN Finish(self, [Result("verifyMfa", "Unauthorized") EXCEPT
                          !.request = args[self].email,
                          !.record = local[self].user.mfaOtpHash])
     ELSE /\ pc' = [pc EXCEPT ![self] = "verify_clear"]
          /\ UNCHANGED <<args, local, result>>
  /\ UNCHANGED <<dbVars, rowLock, started, initialQuantity, priceHistory,
                 counterRewritten, returned, heldStaffRole, authVars>>

\* clearMfaOtp, getUserRoles, signToken; return { accessToken }
VerifyMfaClear(self) ==
  /\ pc[self] = "verify_clear"
  /\ usersMfa' = [usersMfa EXCEPT ![args[self].email] = ClearedOtp(@)]
  /\ tokens' = Append(tokens,
        [email |-> args[self].email, via |-> "verifyMfa",
         otpHash |-> local[self].user.mfaOtpHash])
  /\ Finish(self, [Result("verifyMfa", "accessToken") EXCEPT
                     !.request = args[self].email,
                     !.record = local[self].user.mfaOtpHash])
  /\ UNCHANGED <<dbVars, rowLock, started, initialQuantity, priceHistory,
                 counterRewritten, returned, heldStaffRole, clock, mailbox>>

\* toggleMfa(userId, dto): findById, then UPDATE mfaEnabled and clear the OTP
ToggleMfa(self, email, enabled) ==
  /\ CanStart(self)
  /\ started' = started + 1
  /\ usersMfa' = [usersMfa EXCEPT ![email] =
        [@ EXCEPT !.mfaEnabled = enabled, !.mfaOtpHash = NoOtp,
                  !.mfaOtpExpiresAt = NoOtp]]
  /\ Finish(self, [Result("toggleMfa", "ok") EXCEPT !.request = email])
  /\ UNCHANGED <<dbVars, rowLock, initialQuantity, priceHistory, counterRewritten,
                 returned, heldStaffRole, clock, mailbox, tokens>>

\* time passes
Tick ==
  /\ clock < MaxTime
  /\ clock' = clock + 1
  /\ UNCHANGED <<dbVars, rowLock, pc, args, local, result, started,
                 initialQuantity, priceHistory, counterRewritten, returned,
                 heldStaffRole, usersMfa, mailbox, tokens>>

NextAuth ==
  \/ \E self \in Procs, email \in Emails, password \in Passwords, otp \in Otps :
        LoginBegin(self, email, password, otp)
  \/ \E self \in Procs : LoginSetOtp(self)
  \/ \E self \in Procs : LoginSendOtp(self)
  \/ \E self \in Procs, email \in Emails, otp \in Otps : VerifyMfaBegin(self, email, otp)
  \/ \E self \in Procs : VerifyMfaClearExpired(self)
  \/ \E self \in Procs : VerifyMfaCompare(self)
  \/ \E self \in Procs : VerifyMfaClear(self)
  \/ \E self \in Procs, email \in DOMAIN usersMfa, enabled \in BOOLEAN :
        ToggleMfa(self, email, enabled)
  \/ Tick

\* the accounts of InitAuth, beside a catalog that no request of
\* AuthService reads or writes
InitAccounts == Init /\ initialQuantity["P1"] = 1

SpecAuth == InitAccounts /\ [][NextAuth]_vars

\* ------------------------------------------------------ deadlock detection
\* the row the next statement of a handler needs a lock on
NeededRow(self) ==
  IF pc[self] = "adjust_select" /\ args[self].productId \in Products
    THEN <<"inventory_items", args[self].productId>>
  ELSE IF pc[self] = "adjust_update"
    THEN <<"products", args[self].productId>>
  ELSE IF pc[self] = "create_reserve" /\ local[self].i <= Len(args[self].items)
    THEN <<"products", args[self].items[local[self].i].productId>>
  ELSE <<"none", "none">>

Blocked(self) ==
  /\ NeededRow(self) \in Rows
  /\ rowLock[NeededRow(self)] \notin {NoProc, {self}}

BlockedBy(self) == CHOOSE holder \in rowLock[NeededRow(self)] : TRUE

RECURSIVE WaitsOn(_, _, _)
WaitsOn(a, b, n) ==
  /\ n > 0
  /\ Blocked(a)
  /\ \/ BlockedBy(a) = b
     \/ WaitsOn(BlockedBy(a), b, n - 1)

\* PostgreSQL aborts one transaction of a lock cycle ("deadlock detected");
\* its writes are rolled back and the handler's promise rejects
DeadlockAbort(self) ==
  /\ WaitsOn(self, self, Cardinality(Procs))
  /\ rowLock' = ReleaseLocks(self)
  /\ Finish(self, Result(IF pc[self] = "create_reserve" THEN "createOrder" ELSE "adjust",
                          "Deadlock"))
  /\ UNCHANGED <<dbVars, started, initialQuantity, priceHistory,
                 counterRewritten, returned,
                 heldStaffRole, authVars>>

\* ================================================================== Next
Next ==
  \/ \E self \in Procs, productId \in AdjustTargets, adjustment \in Adjustments :
        AdjustBegin(self, productId, adjustment)
  \/ \E self \in Procs : AdjustSelectForUpdate(self)
  \/ \E self \in Procs : AdjustCommit(self)
  \/ \E self \in Procs, id \in UpdateTargets, dto \in ProductUpdates :
        ProductsUpdate(self, id, dto)
  \/ \E self \in Procs, dto \in OrderDtos : CreateOrderBegin(self, dto)
  \/ \E self \in Procs : CreateOrderReserve(self)
  \/ \E self \in Procs : CreateOrderCommit(self)
  \/ \E self \in Procs : DeadlockAbort(self)

Spec == Init /\ [][Next]_vars

\* ------------------------------------------------------- lifecycle behaviours
LifecycleDtos == { <<Item("P1", 1)>> }
OrderIdInputs == {1, 2}               \* 2: an id with no orders row

\* createOrder as in Next, counted against the lifecycle bound
CreateOrderForLifecycle(self, dto) ==
  /\ started < MaxLifecycleOps
  /\ Len(orders) = 0
  /\ \A other \in Procs : pc[other] = "idle"
  /\ CreateOrderBegin(self, dto)

NextLifecycle ==
  \/ \E self \in Procs, dto \in LifecycleDtos : CreateOrderForLifecycle(self, dto)
  \/ \E self \in Procs : CreateOrderReserve(self)
  \/ \E self \in Procs : CreateOrderCommit(self)
  \/ \E self \in Procs, orderId \in OrderIdInputs, status \in ORDER_STATUSES :
        UpdateStatusBegin(self, orderId, status)
  \/ \E self \in Procs : UpdateStatusCommit(self)
  \/ \E self \in Procs, orderId \in OrderIdInputs : UpdateTrackingBegin(self, orderId)
  \/ \E self \in Procs : UpdateTrackingCommit(self)
  \/ \E self \in Procs, orderId \in OrderIdInputs, staffUserId \in StaffInputs :
        ShipmentCreateBegin(self, orderId, staffUserId)
  \/ \E self \in Procs : ShipmentCheckExisting(self)
  \/ \E self \in Procs : ShipmentCheckStaff(self)
  \/ \E self \in Procs : ShipmentCreateCommit(self)

SpecLifecycle == Init /\ [][NextLifecycle]_vars

\* ------------------------------------------------------ shipment behaviours
\* the state after createOrder([{P1, 1}]) and updateStatus(1, PAID) have
\* returned: one PAID order with its item and its two history rows
InitPaidOrder ==
  /\ \E q \in 1..MaxInitQty :
       /\ products = [p \in Products |->
             [status |-> "active",
              inventory |-> IF p = "P1" THEN q - 1 ELSE MaxInitQty,
              price |-> <<0, 99>>]]
       /\ inventoryItems = [p \in Products |->
             [quantity |-> IF p = "P1" THEN q ELSE MaxInitQty]]
       /\ initialQuantity = [p \in Products |-> IF p = "P1" THEN q ELSE MaxInitQty]
  /\ inventoryAdjustments = <<>>
  /\ orders = << [userId |-> Buyer, status |-> "PAID", totalAmount |-> 99,
                  trackingNumber |-> "none", carrier |-> "none"] >>
  /\ orderItems = << [orderId |-> 1, productId |-> "P1", quantity |-> 1,
                      unitPrice |-> 99] >>
  /\ orderStatusHistory =
       << [orderId |-> 1, status |-> "PENDING_PAYMENT",
           note |-> "Order created", changedBy |-> Buyer],
          [orderId |-> 1, status |-> "PAID",
           note |-> "Status changed", changedBy |-> Admin] >>
  /\ shipments = <<>>
  /\ users = [u \in {"u_staff", "u_cust"} |-> IF u = "u_staff" THEN "staff" ELSE "customer"]
  /\ rowLock = [r \in Rows |-> NoProc]
  /\ pc = [self \in Procs |-> "idle"]
  /\ args = [self \in Procs |-> NoArgs]
  /\ local = [self \in Procs |-> NoLocal]
  /\ result = [self \in Procs |-> NoResult]
  /\ started = 0
  /\ priceHistory = [p \in Products |-> {<<0, 99>>}]
  /\ counterRewritten = {}
  /\ returned = [adjustSum |-> [p \in Products |-> 0],
                 adjustCount |-> [p \in Products |-> 0],
                 orderCount |-> 1]
  /\ heldStaffRole = [self \in Procs |-> {}]
  /\ InitAuth

NextShipments ==
  \/ \E self \in Procs, orderId \in OrderIdInputs, staffUserId \in StaffInputs :
        ShipmentCreateBegin(self, orderId, staffUserId)
  \/ \E self \in Procs : ShipmentCheckExisting(self)
  \/ \E self \in Procs : ShipmentCheckStaff(self)
  \/ \E self \in Procs : ShipmentCreateCommit(self)
  \/ \E self \in Procs, shipmentId \in ShipmentIdInputs, staffUserId \in StaffInputs :
        ReassignBegin(self, shipmentId, staffUserId)
  \/ \E self \in Procs : ReassignCheckStaff(self)
  \/ \E self \in Procs : ReassignCommit(self)
  \/ \E self \in Procs, shipmentId \in ShipmentIdInputs, status \in SHIPMENT_STATUSES :
        TransitionShipment(self, shipmentId, status)
  \/ \E self \in Procs, id \in StaffInputs, role \in Roles :
        UsersUpdateRole(self, id, role)

SpecShipments == InitPaidOrder /\ [][NextShipments]_vars

\* ------------------------------------------- behaviours of an existing order
FulfilmentAdjustments == {-1}
FulfilmentStatuses == {"PROCESSING", "REFUNDED", "SHIPPED"}
ExistingOrder == {1}

\* every operation that can follow createOrder, on the order of InitPaidOrder
NextFulfilment ==
  \/ \E self \in Procs, orderId \in ExistingOrder, status \in FulfilmentStatuses :
        UpdateStatusBegin(self, orderId, status)
  \/ \E self \in Procs : UpdateStatusCommit(self)
  \/ \E self \in Procs, orderId \in ExistingOrder : UpdateTrackingBegin(self, orderId)
  \/ \E self \in Procs : UpdateTrackingCommit(self)
  \/ \E self \in Procs, orderId \in ExistingOrder, staffUserId \in StaffInputs :
        ShipmentCreateBegin(self, orderId, staffUserId)
  \/ \E self \in Procs : ShipmentCheckExisting(self)
  \/ \E self \in Procs : ShipmentCheckStaff(self)
  \/ \E self \in Procs : ShipmentCreateCommit(self)
  \/ \E self \in Procs, shipmentId \in ExistingOrder, staffUserId \in StaffInputs :
        ReassignBegin(self, shipmentId, staffUserId)
  \/ \E self \in Procs : ReassignCheckStaff(self)
  \/ \E self \in Procs : ReassignCommit(self)
  \/ \E self \in Procs, productId \in CatalogAdjustTargets,
        adjustment \in FulfilmentAdjustments :
        AdjustBegin(self, productId, adjustment)
  \/ \E self \in Procs : AdjustSelectForUpdate(self)
  \/ \E self \in Procs : AdjustCommit(self)
  \/ \E self \in Procs, id \in UpdateTargets, dto \in ProductUpdates :
        ProductsUpdate(self, id, dto)

SpecFulfilment == InitPaidOrder /\ [][NextFulfilment]_vars

\* ------------------------------------------------------------ shipment views
\* req.user of the caller: the JwtUser the guard attaches
JwtUsers ==
  { [userId |-> "u_admin", roles |-> {"ADMIN"}],
    [userId |-> "u_staff", roles |-> {"STAFF"}],
    [userId |-> "u_staff2", roles |-> {"STAFF"}] }

\* @Query('status'), @Query('staffId'); "none": the parameter is not passed
ShipmentQueries ==
  [status : {"none", "ASSIGNED"}, staffId : {"none", "u_staff", "u_staff2"}]

\* const isAdmin = req.user.roles.includes('ADMIN')
IsAdmin(user) == "ADMIN" \in user.roles

\* the WHERE clause of findAll: and(...conditions)
FindAllWhere_Mutant(row, userId, isAdmin, query) ==
  /\ (isAdmin \/ query.staffId # "none") \/ row.staffUserId = userId
  /\ query.status # "none" => row.status = query.status
  /\ query.staffId # "none" => row.staffUserId = query.staffId
FindAllWhere(row, userId, isAdmin, query) ==
  /\ ~isAdmin => row.staffUserId = userId
  /\ query.status # "none" => row.status = query.status
  /\ query.staffId # "none" => row.staffUserId = query.staffId

\* findAll(userId, isAdmin, query): the rows the SELECT returns
FindAll(userId, isAdmin, query) ==
  SelectSeq(shipments, LAMBDA row : FindAllWhere(row, userId, isAdmin, query))

\* !isAdmin && row.shipment.staffUserId !== userId
AccessDenied(row, userId, isAdmin) == ~isAdmin /\ row.staffUserId # userId

\* GET /shipments
ShipmentsFindAll(self, user, query) ==
  /\ CanStart(self)
  /\ started' = started + 1
  /\ Finish(self, [Result("findAll", "ok") EXCEPT
                     !.record = FindAll(user.userId, IsAdmin(user), query),
                     !.request = [user |-> user, query |-> query]])
  /\ UNCHANGED <<dbVars, rowLock, initialQuantity, priceHistory, counterRewritten,
                 returned, heldStaffRole, authVars>>

\* GET /shipments/:id
ShipmentsFindById(self, id, user) ==
  /\ CanStart(self)
  /\ started' = started + 1
  /\ IF id \notin DOMAIN shipments
     THEN Finish(self, [Result("findById", "NotFound") EXCEPT
                          !.request = [user |-> user, id |-> id]])
     ELSE IF AccessDenied(shipments[id], user.userId, IsAdmin(user))
     THEN Finish(self, [Result("findById", "Forbidden") EXCEPT
                          !.request = [user |-> user, id |-> id]])
     ELSE Finish(self, [Result("findById", "ok") EXCEPT
                          !.record = shipments[id],
                          !.request = [user |-> user, id |-> id]])
  /\ UNCHANGED <<dbVars, rowLock, initialQuantity, priceHistory, counterRewritten,
                 returned, heldStaffRole, authVars>>

\* the shipments tables of two orders that were assigned to staff
ShipmentTables ==
  UNION { [1..n -> [orderId : {1, 2}, staffUserId : {"u_staff", "u_staff2"},
                    status : {"ASSIGNED", "IN_TRANSIT"}, assignedAt : {0}]]
          : n \in 0..2 }

\* two orders in PROCESSING, their shipments stored
InitViews ==
  /\ shipments \in {t \in ShipmentTables : \A k \in DOMAIN t : t[k].orderId = k}
  /\ products = [p \in Products |->
        [status |-> "active",
         inventory |-> IF p = "P1" THEN MaxInitQty - 2 ELSE MaxInitQty,
         price |-> <<0, 99>>]]
  /\ inventoryItems = [p \in Products |-> [quantity |-> MaxInitQty]]
  /\ initialQuantity = [p \in Products |-> MaxInitQty]
  /\ inventoryAdjustments = <<>>
  /\ orders = [o \in 1..2 |->
                 [userId |-> Buyer, status |-> "PROCESSING", totalAmount |-> 99,
                  trackingNumber |-> "none", carrier |-> "none"]]
  /\ orderItems = [o \in 1..2 |->
                     [orderId |-> o, productId |-> "P1", quantity |-> 1,
                      unitPrice |-> 99]]
  /\ orderStatusHistory =
       << InitialHistoryRow(1, Buyer), InitialHistoryRow(2, Buyer),
          StatusHistoryRow(1, "PENDING_PAYMENT", "PAID"),
          StatusHistoryRow(2, "PENDING_PAYMENT", "PAID"),
          StatusHistoryRow(1, "PAID", "PROCESSING"),
          StatusHistoryRow(2, "PAID", "PROCESSING") >>
  /\ users = [u \in {"u_admin", "u_staff", "u_staff2", "u_cust"} |->
                IF u = "u_admin" THEN "admin"
                ELSE IF u = "u_cust" THEN "customer" ELSE "staff"]
  /\ rowLock = [r \in Rows |-> NoProc]
  /\ pc = [self \in Procs |-> "idle"]
  /\ args = [self \in Procs |-> NoArgs]
  /\ local = [self \in Procs |-> NoLocal]
  /\ result = [self \in Procs |-> NoResult]
  /\ started = 0
  /\ priceHistory = [p \in Products |-> {<<0, 99>>}]
  /\ counterRewritten = {}
  /\ returned = [adjustSum |-> [p \in Products |-> 0],
                 adjustCount |-> [p \in Products |-> 0],
                 orderCount |-> 2]
  /\ heldStaffRole = [self \in Procs |-> {}]
  /\ InitAuth

NextViews ==
  \/ \E self \in Procs, user \in JwtUsers, query \in ShipmentQueries :
        ShipmentsFindAll(self, user, query)
  \/ \E self \in Procs, id \in 1..3, user \in JwtUsers :
        ShipmentsFindById(self, id, user)

SpecViews == InitViews /\ [][NextViews]_vars

\* ===================================================== properties: helpers
\* the handler in slot self starts a request in this step
StartedBy(self) == started' = started + 1 /\ SlotFree(self)

\* the handler in slot self returns or throws in this step
Returns(self, op) ==
  /\ pc'[self] = "idle"
  /\ result'[self].op = op
  /\ \/ pc[self] # "idle"
     \/ StartedBy(self)

\* units of product p on the lines of all orders
ReservedUnits(p) ==
  SumSeq([k \in 1..Len(orderItems) |->
            IF orderItems[k].productId = p THEN orderItems[k].quantity ELSE 0])

\* sum of the deltas of the adjustment rows of the record of product p
LoggedDelta(p) ==
  SumSeq([k \in 1..Len(inventoryAdjustments) |->
            IF inventoryAdjustments[k].inventoryItemId = p
            THEN inventoryAdjustments[k].adjustment ELSE 0])

AdjustmentRows(p) ==
  {k \in 1..Len(inventoryAdjustments) : inventoryAdjustments[k].inventoryItemId = p}

\* ---------------------------------------------------------------------- C1
\* C1: under any sequence of adjust calls the inventory record's quantity is
\* never negative; an adjust whose delta would take quantity + delta below 0
\* is rejected (InvalidAdjustment) and leaves the quantity, the adjustment log
\* and the product's duplicate inventory counter as they were.
C1_AdjustNeverNegative ==
  /\ [](\A p \in Products : inventoryItems[p].quantity >= 0)
  /\ [][\A self \in Procs :
          /\ ( /\ pc[self] = "adjust_select"
               /\ pc'[self] # "adjust_select"
               /\ args[self].productId \in Products
               /\ inventoryItems[args[self].productId].quantity
                    + args[self].adjustment < 0 )
             => ( /\ Returns(self, "adjust")
                  /\ result'[self].outcome = "InvalidAdjustment" )
          /\ ( Returns(self, "adjust") /\ result'[self].outcome = "InvalidAdjustment" )
             => UNCHANGED <<inventoryItems, inventoryAdjustments, products>>
       ]_vars

C1_Witness ==
  \E self \in Procs :
    /\ result[self].op = "adjust"
    /\ result[self].outcome = "InvalidAdjustment"
    /\ \E p \in Products : inventoryItems[p].quantity = 0

\* ---------------------------------------------------------------------- C2
\* C2: adjust calls on one product serialize with no lost update: the record's
\* quantity is the quantity it was created with plus the deltas of all adjust
\* calls that returned successfully, and the log holds one row per such call
\* (N concurrent adjust(-1) from quantity N end at 0 with N rows).
C2_SerializedAdjust ==
  \A p \in Products :
    /\ inventoryItems[p].quantity = initialQuantity[p] + returned.adjustSum[p]
    /\ Cardinality(AdjustmentRows(p)) = returned.adjustCount[p]

C2_Witness ==
  /\ initialQuantity["P1"] = 2
  /\ inventoryItems["P1"].quantity = 0
  /\ returned.adjustCount["P1"] = 2
  /\ \A self \in Procs : result[self].op = "adjust" /\ result[self].outcome = "ok"

\* ---------------------------------------------------------------------- C3
\* C3: concurrent createOrder calls for the remaining units of a product never
\* oversell it: while no adjust and no catalog update has rewritten the
\* product's counter, the units on order lines never exceed the stock the
\* product started with (two calls for one last unit give at most one order),
\* and an order row exists only for a call that returned successfully.
C3_LastUnitSoldOnce ==
  /\ \A p \in Products :
       (returned.adjustCount[p] = 0 /\ p \notin counterRewritten)
         => ReservedUnits(p) <= initialQuantity[p]
  /\ Len(orders) = returned.orderCount

C3_Witness ==
  /\ initialQuantity["P1"] = 1
  /\ returned.adjustCount["P1"] = 0 /\ "P1" \notin counterRewritten
  /\ Len(orders) = 1
  /\ ReservedUnits("P1") = 1
  /\ \E self \in Procs :
       result[self].op = "createOrder" /\ result[self].outcome = "StockChanged"

\* ---------------------------------------------------------------------- C4
\* C4: createOrder is all-or-nothing: a call that fails (missing product,
\* product not active, insufficient stock, a refused conditional decrement, or
\* a transaction the store aborts) leaves every product's stock counter and
\* the orders, order_items and order_status_history tables unchanged and holds
\* no row lock; stock is consumed only together with the order lines for it.
C4_CreateOrderAllOrNothing ==
  /\ [](\A p \in Products :
          (returned.adjustCount[p] = 0 /\ p \notin counterRewritten)
            => products[p].inventory + ReservedUnits(p) = initialQuantity[p])
  /\ [][\A self \in Procs :
          (Returns(self, "createOrder") /\ result'[self].outcome # "ok")
            => /\ UNCHANGED <<products, orders, orderItems, orderStatusHistory>>
               /\ \A r \in Rows : self \notin rowLock'[r]
       ]_vars

C4_Witness ==
  /\ started = 1
  /\ \E self \in Procs :
       result[self].op = "createOrder" /\ result[self].outcome = "StockChanged"
  /\ orders = <<>>
  /\ \A p \in Products : products[p].inventory = initialQuantity[p]

\* ---------------------------------------------------------------------- C5
\* C5: a successful createOrder for k units of P reduces by k the quantity a
\* later adjust on P works from (quantity 25, order of 3, then adjust(-25) is
\* refused because it would give -3).
C5_OrderReducesLedgerQuantity ==
  \A p \in Products :
    returned.adjustCount[p] = 0
      => inventoryItems[p].quantity = initialQuantity[p] - ReservedUnits(p)

\* ---------------------------------------------------------------------- C9
\* C9: conservation: for every inventory record the deltas of its adjustment
\* rows sum to its quantity minus the quantity it was created with; a
\* successful adjust appends exactly one row carrying the requested delta and
\* no step changes or removes a row already in the log.
C9_Conservation ==
  /\ [](\A p \in Products :
          LoggedDelta(p) = inventoryItems[p].quantity - initialQuantity[p])
  /\ [][/\ Len(inventoryAdjustments') >= Len(inventoryAdjustments)
        /\ SubSeq(inventoryAdjustments', 1, Len(inventoryAdjustments))
             = inventoryAdjustments
        /\ \A self \in Procs :
             (Returns(self, "adjust") /\ result'[self].outcome = "ok")
               => /\ Len(inventoryAdjustments') = Len(inventoryAdjustments) + 1
                  /\ inventoryAdjustments'[Len(inventoryAdjustments')].adjustment
                       = args[self].adjustment
                  /\ inventoryAdjustments'[Len(inventoryAdjustments')].inventoryItemId
                       = args[self].productId
       ]_vars

C9_Witness ==
  /\ Len(inventoryAdjustments) = 2
  /\ inventoryAdjustments[1].adjustment # inventoryAdjustments[2].adjustment
  /\ inventoryItems["P1"].quantity # initialQuantity["P1"]

\* --------------------------------------------------------------------- C10
\* C10: price integrity: the unit price createOrder computes for a line is the
\* catalog price of the product, in minor units, as its SELECT read it (never
\* the price the caller sent); that value is what the order_items row stores,
\* and the order's totalAmount is the sum of unitPrice x quantity of its rows.
MinorUnits(price) == 100 * price[1] + price[2]

OrderLines(orderId) ==
  {k \in 1..Len(orderItems) : orderItems[k].orderId = orderId}

C10_PriceIntegrity ==
  /\ [](\A orderId \in DOMAIN orders :
          /\ orders[orderId].totalAmount =
               SumSeq([k \in 1..Len(orderItems) |->
                         IF orderItems[k].orderId = orderId
                         THEN orderItems[k].unitPrice * orderItems[k].quantity
                         ELSE 0])
          /\ \A k \in OrderLines(orderId) :
               \E price \in priceHistory[orderItems[k].productId] :
                 orderItems[k].unitPrice = MinorUnits(price))
  /\ [][\A self \in Procs :
          /\ (StartedBy(self) /\ pc'[self] = "create_reserve")
               => \A i \in 1..Len(args'[self].items) :
                    local'[self].itemsWithPrice[i].unitPriceCents
                      = MinorUnits(products[args'[self].items[i].productId].price)
          /\ (Returns(self, "createOrder") /\ result'[self].outcome = "ok")
               => \A i \in 1..Len(args[self].items) :
                    LET row == orderItems'[Len(orderItems) + i]
                    IN /\ row.orderId = Len(orders')
                       /\ row.productId = args[self].items[i].productId
                       /\ row.quantity = args[self].items[i].quantity
                       /\ row.unitPrice = local[self].itemsWithPrice[i].unitPriceCents
       ]_vars

C10_Witness ==
  /\ Len(orders) = 1
  /\ orders[1].totalAmount = 250
  /\ products["P1"].price = <<2, 50>>

\* ---------------------------------------------------------------------- C6
\* C6: updateStatus on an existing order goes through exactly when the target
\* is in the allowed-next set of the status the order has, per the table
\* PENDING_PAYMENT -> {PAID, CANCELLED, FAILED}, PAID -> {PROCESSING,
\* CANCELLED, REFUNDED}, PROCESSING -> {SHIPPED, CANCELLED}, SHIPPED ->
\* {DELIVERED, FAILED}, DELIVERED -> {REFUNDED}, FAILED -> {PROCESSING},
\* CANCELLED and REFUNDED -> {}; a rejected call leaves the order's status and
\* the history unchanged, an accepted one stores the target status.
AllowedNext(current) ==
  IF current = "PENDING_PAYMENT" THEN {"PAID", "CANCELLED", "FAILED"}
  ELSE IF current = "PAID" THEN {"PROCESSING", "CANCELLED", "REFUNDED"}
  ELSE IF current = "PROCESSING" THEN {"SHIPPED", "CANCELLED"}
  ELSE IF current = "SHIPPED" THEN {"DELIVERED", "FAILED"}
  ELSE IF current = "DELIVERED" THEN {"REFUNDED"}
  ELSE IF current = "FAILED" THEN {"PROCESSING"}
  ELSE {}

C6_TransitionClosure ==
  [][\A self \in Procs :
       /\ (StartedBy(self) /\ pc'[self] = "status_tx")
            => args'[self].status
                 \in AllowedNext(orders[args'[self].orderId].status)
       /\ ( /\ StartedBy(self)
            /\ Returns(self, "updateStatus")
            /\ result'[self].orderId \in DOMAIN orders )
            => /\ result'[self].outcome = "InvalidTransition"
               /\ result'[self].status
                    \notin AllowedNext(orders[result'[self].orderId].status)
               /\ UNCHANGED <<orders, orderStatusHistory>>
       /\ (pc[self] = "status_tx" /\ pc'[self] # "status_tx")
            => /\ Returns(self, "updateStatus")
               /\ result'[self].outcome = "ok"
               /\ orders'[args[self].orderId].status = args[self].status
    ]_vars

C6_Witness ==
  /\ Len(orders) = 1
  /\ orders[1].status = "PAID"
  /\ \E self \in Procs :
       /\ result[self].op = "updateStatus"
       /\ result[self].outcome = "InvalidTransition"
       /\ result[self].orderId = 1
       /\ result[self].status = "SHIPPED"

\* ---------------------------------------------------------------------- C7
\* C7: there is never more than one shipment per order: a createShipment that
\* gets to its existing-shipment check or to its INSERT when the order already
\* has a shipment fails (already exists / uniqueness violation) and adds no
\* row, also when two createShipment calls for the order run concurrently.
ShipmentsOf(orderId) ==
  {k \in 1..Len(shipments) : shipments[k].orderId = orderId}

C7_SingleShipment ==
  /\ [](\A orderId \in DOMAIN orders : Cardinality(ShipmentsOf(orderId)) <= 1)
  /\ [][\A self \in Procs :
          ( /\ pc[self] \in {"shipment_existing", "shipment_tx"}
            /\ pc'[self] # pc[self]
            /\ ShipmentsOf(args[self].orderId) # {} )
            => /\ Returns(self, "createShipment")
               /\ result'[self].outcome \in {"AlreadyExists", "UniqueViolation"}
               /\ shipments' = shipments
       ]_vars

C7_Witness ==
  /\ Len(shipments) = 1
  /\ \E self \in Procs :
       /\ result[self].op = "createShipment"
       /\ result[self].outcome = "UniqueViolation"
       /\ result[self].orderId = shipments[1].orderId

\* ---------------------------------------------------------------------- C8
\* C8: CANCELLED and REFUNDED are terminal: once an order's status is CANCELLED
\* or REFUNDED no step (updateStatus, updateTracking, createShipment) changes
\* that order's status.
C8_TerminalStatesFinal ==
  [][\A orderId \in DOMAIN orders :
       orders[orderId].status \in {"CANCELLED", "REFUNDED"}
         => orders'[orderId].status = orders[orderId].status
    ]_vars


\* ------------------------------------------------------------------- C11
\* the handler in slot self runs a statement of ensureInventory in this step
EnsureStep(self) ==
  /\ pc[self] \in {"ensure_insert", "ensure_fetch"}
  /\ pc'[self] # pc[self]

\* C11: ensureInventory is idempotent.  A statement of ensureInventory
\* (called directly or from ProductsService.create) for a product that
\* already has an inventory record leaves inventory_items and every other
\* table unchanged, and the call returns the stored record with its stored
\* quantity, not the quantity passed; so as long as no adjustment is applied
\* every call for the product returns the record it was created with.
C11_EnsureIdempotent ==
  /\ [][\A self \in Procs :
          (EnsureStep(self) /\ args[self].productId \in DOMAIN inventoryItems)
            => LET productId == args[self].productId
               IN /\ inventoryItems' = inventoryItems
                  /\ UNCHANGED dbVars
                  /\ pc'[self] = "idle"
                       => /\ result'[self].outcome = "ok"
                          /\ result'[self].record =
                               [productId |-> productId,
                                quantity |-> inventoryItems[productId].quantity]]_vars
  /\ [](\A self \in Procs :
          (result[self].op = "ensureInventory" /\ result[self].outcome = "ok"
             /\ returned.adjustCount[result[self].record.productId] = 0)
            => result[self].record.quantity
                 = initialQuantity[result[self].record.productId])

\* two calls for P1 have returned the same record, whose quantity (changed by
\* an adjustment since creation) is none of the quantities a call passes
C11_Witness ==
  /\ \A self \in Procs :
       /\ result[self].op = "ensureInventory"
       /\ result[self].outcome = "ok"
       /\ result[self].record = [productId |-> "P1",
                                 quantity |-> inventoryItems["P1"].quantity]
  /\ inventoryItems["P1"].quantity \notin InitialQuantities
  /\ returned.adjustCount["P1"] = 1


ShipmentStored == Len(shipments') = Len(shipments) + 1

\* C13: a successful createShipment stores the shipment as ASSIGNED and, in
\* the same step, moves the order from PAID to PROCESSING with exactly one
\* PROCESSING history row if and only if the order was PAID; an order that
\* is not PAID (already PROCESSING) keeps its status and its history.  No
\* state has a shipment whose order never got a PROCESSING history row, nor
\* a "Shipment created" history row without the shipment.
C13_ShipmentAtomicWithOrder ==
  /\ [][ShipmentStored
          => LET shipment == shipments'[Len(shipments')]
                 orderId == shipment.orderId
             IN /\ shipment.status = "ASSIGNED"
                /\ orders[orderId].status = "PAID"
                     => /\ orders' = [orders EXCEPT ![orderId].status = "PROCESSING"]
                        /\ Len(orderStatusHistory') = Len(orderStatusHistory) + 1
                        /\ SubSeq(orderStatusHistory', 1, Len(orderStatusHistory))
                             = orderStatusHistory
                        /\ orderStatusHistory'[Len(orderStatusHistory')].orderId = orderId
                        /\ orderStatusHistory'[Len(orderStatusHistory')].status
                             = "PROCESSING"
                /\ orders[orderId].status # "PAID"
                     => UNCHANGED <<orders, orderStatusHistory>>]_vars
  /\ [](\A k \in 1..Len(shipments) :
          \E h \in 1..Len(orderStatusHistory) :
            /\ orderStatusHistory[h].orderId = shipments[k].orderId
            /\ orderStatusHistory[h].status = "PROCESSING")
  /\ [](\A h \in 1..Len(orderStatusHistory) :
          orderStatusHistory[h].note = "Shipment created"
            => \E k \in 1..Len(shipments) :
                 shipments[k].orderId = orderStatusHistory[h].orderId)


\* ------------------------------------------------------------------- C14
\* the allowed-next table of shipments as the claim states it
AllowedNextShipment(current) ==
  IF current = "ASSIGNED" THEN {"IN_TRANSIT", "FAILED"}
  ELSE IF current = "IN_TRANSIT" THEN {"DELIVERED", "FAILED"}
  ELSE IF current = "FAILED" THEN {"RETURNED", "IN_TRANSIT"}
  ELSE {}

C15_ReassignOnlyAssigned ==
  [][\A self \in Procs :
      /\ (pc[self] = "idle" /\ pc'[self] = "reassign_staff")
           => /\ args'[self].shipmentId \in DOMAIN shipments
              /\ shipments[args'[self].shipmentId].status = "ASSIGNED"
      /\ Returns(self, "reassign")
         => LET outcome == result'[self].outcome
            IN /\ (StartedBy(self) /\ outcome # "NotFound"
                     /\ shipments[1].status # "ASSIGNED")
                    => outcome = "InvalidState"
               /\ outcome = "InvalidState"
                    => StartedBy(self) /\ shipments[1].status # "ASSIGNED"
               /\ outcome # "ok" => UNCHANGED dbVars
               /\ outcome = "ok"
                    => /\ Len(shipments') = Len(shipments)
                       /\ shipments'[1].status = shipments[1].status
                       /\ shipments'[1].orderId = shipments[1].orderId
                       /\ shipments'[1].assignedAt >= shipments[1].assignedAt
                       /\ shipments'[1].staffUserId \in DOMAIN users
                       /\ UNCHANGED <<products, inventoryItems, inventoryAdjustments,
                                      orders, orderItems, orderStatusHistory, users>>
  ]_vars

\* after a successful reassign re-stamped the shipment and the shipment went
\* IN_TRANSIT, a reassign has been refused and the assignee is as it was
C15_Witness ==
  /\ Len(shipments) = 1
  /\ shipments[1].status = "IN_TRANSIT"
  /\ shipments[1].assignedAt > 1
  /\ shipments[1].staffUserId = "u_staff"
  /\ \E self \in Procs :
       /\ result[self].op = "reassign"
       /\ result[self].outcome = "InvalidState"
       /\ result[self].record = shipments[1]

\* ------------------------------------------------------------------- C16
\* C16: whenever createShipment or reassign stores an assignee (a new
\* shipment, or a changed staffUserId), that user has a users row and held
\* the staff role at some moment of the call; a call refused with NotFound
\* or InvalidAssignee stores no shipment and changes no assignee; and the
\* role check refuses a user without a row with NotFound and a user whose
\* role is not staff with InvalidAssignee.
C16_AssigneeIsStaff ==
  [][/\ \A k \in DOMAIN shipments' :
          (k \notin DOMAIN shipments
             \/ shipments'[k].staffUserId # shipments[k].staffUserId)
            => \E self \in Procs :
                 /\ pc[self] \in {"shipment_tx", "reassign_update"}
                 /\ pc'[self] = "idle"
                 /\ shipments'[k].staffUserId \in DOMAIN users
                 /\ shipments'[k].staffUserId \in heldStaffRole[self]
     /\ \A self \in Procs :
          /\ (Returns(self, "createShipment") \/ Returns(self, "reassign"))
               /\ result'[self].outcome \in {"NotFound", "InvalidAssignee"}
               => shipments' = shipments
          /\ (pc[self] \in {"shipment_staff", "reassign_staff"}
                /\ pc'[self] # pc[self])
               => /\ args[self].staffUserId \notin DOMAIN users
                       => result'[self].outcome = "NotFound"
                  /\ (args[self].staffUserId \in DOMAIN users
                        /\ users[args[self].staffUserId] # "staff")
                       => result'[self].outcome = "InvalidAssignee"
  ]_vars

\* a reassign to a user without the staff role was refused and the shipment
\* keeps an assignee who holds it, while a createShipment for an unknown
\* user was refused with NotFound
C16_Witness ==
  /\ Len(shipments) = 1
  /\ users[shipments[1].staffUserId] = "staff"
  /\ result[1].op = "reassign" /\ result[1].outcome = "InvalidAssignee"
  /\ result[2].op = "createShipment" /\ result[2].outcome \in {"NotFound", "InvalidAssignee"}


\* ------------------------------------------------------------------- C17
\* the rows of order_status_history that belong to an order, in order
HistoryOf(orderId) ==
  SelectSeq(orderStatusHistory, LAMBDA row : row.orderId = orderId)

\* the history is extended at its end only
HistoryExtended ==
  /\ Len(orderStatusHistory') >= Len(orderStatusHistory)
  /\ SubSeq(orderStatusHistory', 1, Len(orderStatusHistory)) = orderStatusHistory

\* C17: the step that stores an order stores it as PENDING_PAYMENT and
\* appends exactly one history row, for that order and with status
\* PENDING_PAYMENT; every stored order has a history row, and the first one
\* is the PENDING_PAYMENT row of its creation.
C17_OrderCreatedWithHistory ==
  /\ [][Len(orders') # Len(orders)
          => LET orderId == Len(orders')
             IN /\ Len(orders') = Len(orders) + 1
                /\ orders'[orderId].status = "PENDING_PAYMENT"
                /\ HistoryExtended
                /\ Len(orderStatusHistory') = Len(orderStatusHistory) + 1
                /\ orderStatusHistory'[Len(orderStatusHistory')].orderId = orderId
                /\ orderStatusHistory'[Len(orderStatusHistory')].status
                     = "PENDING_PAYMENT"]_vars
  /\ [](\A orderId \in DOMAIN orders :
          /\ Len(HistoryOf(orderId)) >= 1
          /\ HistoryOf(orderId)[1].status = "PENDING_PAYMENT"
          /\ HistoryOf(orderId)[1].note = "Order created")

\* two orders are stored, each with its own single history row
C17_Witness ==
  /\ Len(orders) = 2
  /\ Len(HistoryOf(1)) = 1
  /\ Len(HistoryOf(2)) = 1
  /\ Len(orderStatusHistory) = 2

\* ------------------------------------------------------------------- C18
\* C18: a successful updateStatus sets the order's status and appends
\* exactly one history row, for that order and with the new status, in one
\* step; a refused one changes neither orders nor the history; no step
\* modifies or removes a history row; and no step changes an order's status
\* without appending the history row of the new status.
C18_StatusChangeWithHistory ==
  [][/\ HistoryExtended
     /\ \A self \in Procs :
          Returns(self, "updateStatus")
            => LET orderId == result'[self].orderId
               IN /\ result'[self].outcome = "ok"
                       => /\ orders'[orderId].status = result'[self].status
                          /\ Len(orderStatusHistory') = Len(orderStatusHistory) + 1
                          /\ orderStatusHistory'[Len(orderStatusHistory')].orderId
                               = orderId
                          /\ orderStatusHistory'[Len(orderStatusHistory')].status
                               = result'[self].status
                  /\ result'[self].outcome # "ok"
                       => UNCHANGED <<orders, orderStatusHistory>>
     /\ \A orderId \in DOMAIN orders :
          orders'[orderId].status # orders[orderId].status
            => /\ Len(orderStatusHistory') = Len(orderStatusHistory) + 1
               /\ orderStatusHistory'[Len(orderStatusHistory')].orderId = orderId
               /\ orderStatusHistory'[Len(orderStatusHistory')].status
                    = orders'[orderId].status
  ]_vars

\* one updateStatus moved the order to PAID and appended the PAID row while
\* another, refused, appended nothing
C18_Witness ==
  /\ result[1].op = "updateStatus" /\ result[1].outcome = "ok"
  /\ result[1].status = "PAID"
  /\ result[2].op = "updateStatus" /\ result[2].outcome = "InvalidTransition"
  /\ orders[1].status = "PAID"
  /\ Len(orderStatusHistory) = 2
  /\ orderStatusHistory[2].status = "PAID"

\* ------------------------------------------------------------------- C19
\* C19: updateTracking on an existing order leaves the order's status (and
\* its owner and total) as they are, sets trackingNumber and carrier, and
\* appends exactly one history row for the order, changing nothing else; on
\* an order id with no row it fails NotFound and changes nothing.
C19_TrackingKeepsStatus ==
  [][\A self \in Procs :
       Returns(self, "updateTracking")
         => LET orderId == result'[self].orderId
            IN /\ orderId \notin DOMAIN orders
                    <=> result'[self].outcome = "NotFound"
               /\ result'[self].outcome = "NotFound" => UNCHANGED dbVars
               /\ orderId \in DOMAIN orders
                    => /\ result'[self].outcome = "ok"
                       /\ orders'[orderId].status = orders[orderId].status
                       /\ orders'[orderId].totalAmount = orders[orderId].totalAmount
                       /\ orders'[orderId].userId = orders[orderId].userId
                       /\ \A other \in DOMAIN orders \ {orderId} :
                            orders'[other] = orders[other]
                       /\ HistoryExtended
                       /\ Len(orderStatusHistory') = Len(orderStatusHistory) + 1
                       /\ orderStatusHistory'[Len(orderStatusHistory')].orderId
                            = orderId
                       /\ UNCHANGED <<products, inventoryItems, inventoryAdjustments,
                                      orderItems, shipments, users>>
  ]_vars

\* tracking was recorded on a PAID order, which is still PAID, while a call
\* for an order id with no row failed
C19_Witness ==
  /\ result[1].op = "updateTracking" /\ result[1].outcome = "ok"
  /\ result[2].op = "updateTracking" /\ result[2].outcome = "NotFound"
  /\ orders[1].trackingNumber = "TRK-1"
  /\ orders[1].status = "PAID"
  /\ Len(orderStatusHistory) = 3


\* ------------------------------------------------------------------- C20
\* C20: no step of updateStatus, updateTracking, createShipment, reassign,
\* adjust or a catalog update changes the unitPrice, quantity or product of
\* a stored order item, removes one, or changes a stored order's
\* totalAmount.
C20_OrderItemsImmutable ==
  [][/\ Len(orderItems') >= Len(orderItems)
     /\ \A i \in DOMAIN orderItems :
          /\ orderItems'[i].unitPrice = orderItems[i].unitPrice
          /\ orderItems'[i].quantity = orderItems[i].quantity
          /\ orderItems'[i].productId = orderItems[i].productId
          /\ orderItems'[i].orderId = orderItems[i].orderId
     /\ \A orderId \in DOMAIN orders :
          /\ orderId \in DOMAIN orders'
          /\ orders'[orderId].totalAmount = orders[orderId].totalAmount
  ]_vars

\* the catalog price of P1 has changed, stock was adjusted, the order has a
\* shipment and tracking data, and its item and total are those of creation
C20_Witness ==
  /\ products["P1"].price = <<2, 50>>
  /\ Len(inventoryAdjustments) = 1
  /\ Len(shipments) = 1
  /\ orders[1].trackingNumber = "TRK-1"
  /\ orders[1].status = "PROCESSING"
  /\ orderItems = << [orderId |-> 1, productId |-> "P1", quantity |-> 1,
                      unitPrice |-> 99] >>
  /\ orders[1].totalAmount = 99


\* ------------------------------------------------------------------- C21
\* C21: what findAll returned to a caller without the ADMIN role are
\* shipments assigned to the caller only, whatever status / staffId filters
\* were passed, and without filters all of the caller's; findById of a
\* shipment assigned to someone else failed Forbidden for such a caller and
\* returned the caller's own; for an administrator findAll without filters
\* returned every shipment and findById every shipment asked for.
C21_ShipmentAccessPolicy ==
  \A self \in Procs :
    /\ result[self].op = "findAll"
         => LET user == result[self].request.user
                query == result[self].request.query
                rows == result[self].record
                unfiltered == query.status = "none" /\ query.staffId = "none"
            IN /\ "ADMIN" \notin user.roles
                    => /\ \A k \in DOMAIN rows : rows[k].staffUserId = user.userId
                       /\ unfiltered
                            => rows = SelectSeq(shipments,
                                 LAMBDA row : row.staffUserId = user.userId)
               /\ ("ADMIN" \in user.roles /\ unfiltered) => rows = shipments
    /\ result[self].op = "findById"
         => LET user == result[self].request.user
                id == result[self].request.id
            IN id \in DOMAIN shipments
                 => IF "ADMIN" \in user.roles \/ shipments[id].staffUserId = user.userId
                    THEN /\ result[self].outcome = "ok"
                         /\ result[self].record = shipments[id]
                    ELSE /\ result[self].outcome = "Forbidden"
                         /\ result[self].record = <<>>

\* a staff user listed the shipments with another staff user's id as the
\* staffId filter and got none, although that user has a shipment
C21_Witness ==
  /\ \E k \in DOMAIN shipments : shipments[k].staffUserId = "u_staff2"
  /\ \E k \in DOMAIN shipments : shipments[k].staffUserId = "u_staff"
  /\ result[1].op = "findAll"
  /\ result[1].request.user.userId = "u_staff"
  /\ result[1].request.query.staffId = "u_staff2"
  /\ result[1].record = <<>>

\* ----------------------------------------------------------------- accounts
\* access tokens signed for email by operation via
TokensOf(email, via) ==
  {k \in 1..Len(tokens) : tokens[k].email = email /\ tokens[k].via = via}

\* C22: a login with the correct password for a user with MFA enabled signs
\* no access token: it goes on to store a fresh OTP hash with an expiry,
\* sends the OTP that hash was made from and returns mfaRequired; for a user with MFA disabled it returns an access token and
\* neither stores nor sends an OTP.
C22_LoginMfaBranch ==
  [][\A self \in Procs :
       /\ \A email \in DOMAIN usersMfa, otp \in Otps :
            LoginBegin(self, email, Password, otp) =>
              IF usersMfa[email].mfaEnabled
              THEN /\ tokens' = tokens
                   /\ pc'[self] = "login_set_otp"
              ELSE /\ Returns(self, "login")
                   /\ result'[self].outcome = "accessToken"
                   /\ tokens' = Append(tokens, [email |-> email, via |-> "login",
                                                otpHash |-> NoOtp])
                   /\ usersMfa' = usersMfa
                   /\ mailbox' = mailbox
       /\ (pc[self] = "login_set_otp" /\ pc'[self] # pc[self]) =>
            LET email == args[self].email
            IN /\ usersMfa'[email].mfaOtpHash # NoOtp
               /\ usersMfa'[email].mfaOtpHash # usersMfa[email].mfaOtpHash
               /\ usersMfa'[email].mfaOtpExpiresAt # NoOtp
               /\ pc'[self] = "login_send_otp"
               /\ tokens' = tokens
       /\ (pc[self] = "login_send_otp" /\ pc'[self] # pc[self]) =>
            /\ Len(mailbox') = Len(mailbox) + 1
            /\ mailbox'[Len(mailbox')].email = args[self].email
            /\ result'[self].record[3] = mailbox'[Len(mailbox')].otp
            /\ Returns(self, "login")
            /\ result'[self].outcome = "mfaRequired"
            /\ tokens' = tokens
       /\ (Returns(self, "login") /\ result'[self].outcome = "accessToken") =>
            ~usersMfa[result'[self].request].mfaEnabled
    ]_vars

C22_Witness ==
  /\ result[1].op = "login"
  /\ result[1].outcome = "mfaRequired"
  /\ usersMfa[MfaUser].mfaOtpHash = result[1].record
  /\ mailbox # <<>>
  /\ TokensOf(PlainUser, "login") # {}
  /\ TokensOf(MfaUser, "login") = {}

\* the step is taken by the handler in slot self, which was at label
StepFrom(self, label) == pc[self] = label /\ pc'[self] # label

\* C23: verifyMfa clears the stored OTP hash and expiry when it accepts a
\* valid unexpired OTP (and returns an access token) and when it rejects an
\* expired one (Unauthorized); a hash that was accepted is never the stored
\* one again, and a verifyMfa that starts while no OTP is stored is rejected,
\* so only a new login makes a later verifyMfa succeed; a wrong OTP is
\* rejected with Unauthorized and no token.
C23_VerifyMfaConsumesOtp ==
  /\ [](\A k \in 1..Len(tokens), email \in DOMAIN usersMfa :
          tokens[k].via = "verifyMfa" =>
            usersMfa[email].mfaOtpHash # tokens[k].otpHash)
  /\ [][\A self \in Procs :
          /\ StepFrom(self, "verify_clear") =>
               /\ usersMfa'[args[self].email].mfaOtpHash = NoOtp
               /\ usersMfa'[args[self].email].mfaOtpExpiresAt = NoOtp
               /\ Returns(self, "verifyMfa")
               /\ result'[self].outcome = "accessToken"
               /\ local[self].user.mfaOtpHash[3] = args[self].otp
          /\ StepFrom(self, "verify_clear_expired") =>
               /\ usersMfa'[args[self].email].mfaOtpHash = NoOtp
               /\ usersMfa'[args[self].email].mfaOtpExpiresAt = NoOtp
               /\ Returns(self, "verifyMfa")
               /\ result'[self].outcome = "Unauthorized"
               /\ tokens' = tokens
          /\ (StepFrom(self, "verify_compare")
                /\ local[self].user.mfaOtpHash[3] # args[self].otp) =>
               /\ Returns(self, "verifyMfa")
               /\ result'[self].outcome = "Unauthorized"
               /\ tokens' = tokens
          /\ \A email \in Emails, otp \in Otps :
               VerifyMfaBegin(self, email, otp) =>
                 /\ tokens' = tokens
                 /\ IF email \notin DOMAIN usersMfa
                    THEN result'[self].outcome = "Unauthorized"
                    ELSE IF \/ usersMfa[email].mfaOtpHash = NoOtp
                            \/ ~usersMfa[email].mfaEnabled
                    THEN result'[self].outcome = "Unauthorized"
                    ELSE IF usersMfa[email].mfaOtpExpiresAt[1] < clock
                    THEN pc'[self] = "verify_clear_expired"
                    ELSE pc'[self] = "verify_compare"
       ]_vars

C23_Witness ==
  /\ TokensOf(MfaUser, "verifyMfa") # {}
  /\ usersMfa[MfaUser].mfaOtpHash = NoOtp
  /\ usersMfa[MfaUser].mfaEnabled
  /\ result[1].op = "verifyMfa"
  /\ result[1].outcome = "Unauthorized"
  /\ result[1].request = MfaUser
  /\ result[1].record = <<>>

\* C30: an issued OTP yields at most one access token: no two tokens signed
\* by verifyMfa were signed for the same stored OTP hash.
C30_OtpYieldsOneToken ==
  \A j, k \in 1..Len(tokens) :
    (/\ tokens[j].via = "verifyMfa"
     /\ tokens[k].via = "verifyMfa"
     /\ tokens[j].otpHash = tokens[k].otpHash) => j = k

\* C24: a successful adjust writes the new quantity to the inventory record
\* and to products.inventory in one transaction: in the step that commits
\* it both hold the quantity before plus the adjustment, and no step changes
\* the quantity of an inventory record without leaving products.inventory
\* equal to it.
C24_AdjustSyncsProduct ==
  [][/\ \A self \in Procs :
          (StepFrom(self, "adjust_update") /\ result'[self].outcome = "ok") =>
            LET p == args[self].productId
            IN /\ inventoryItems'[p].quantity =
                    inventoryItems[p].quantity + args[self].adjustment
               /\ products'[p].inventory = inventoryItems'[p].quantity
     /\ \A p \in DOMAIN inventoryItems :
          inventoryItems'[p].quantity # inventoryItems[p].quantity =>
            products'[p].inventory = inventoryItems'[p].quantity
    ]_vars

C24_Witness ==
  /\ result[1].op = "adjust"
  /\ result[1].outcome = "ok"
  /\ inventoryItems["P1"].quantity # initialQuantity["P1"]
  /\ products["P1"].inventory = inventoryItems["P1"].quantity
  /\ Len(orders) > 0

\* units of product p requested on all lines of an item list
RequestedUnits(items, p) ==
  SumSeq([i \in 1..Len(items) |->
            IF items[i].productId = p THEN items[i].quantity ELSE 0])

\* C25: createOrder checks stock against the sum of the quantities its lines
\* request of a product, also when a product is on more than one line: it
\* succeeds only if products.inventory covers that sum, and then takes
\* exactly the sum; a createOrder that fails reserves nothing.
C25_DuplicateLinesSummed ==
  [][\A self \in Procs :
       /\ (StepFrom(self, "create_reserve") /\ result'[self].outcome = "ok") =>
            \A p \in Products :
              /\ products[p].inventory >= RequestedUnits(args[self].items, p)
              /\ products'[p].inventory =
                   products[p].inventory - RequestedUnits(args[self].items, p)
       /\ (Returns(self, "createOrder") /\ result'[self].outcome # "ok") =>
            /\ products' = products
            /\ orders' = orders
            /\ orderItems' = orderItems
    ]_vars

C25_Witness ==
  /\ started = 1
  /\ result[1].op = "createOrder"
  /\ result[1].outcome = "StockChanged"
  /\ products["P1"].inventory = 1
  /\ orders = <<>>
  /\ orderItems = <<>>

\* C26: no oversell across adjust and createOrder: the units of a product on
\* the lines of all orders never exceed its initial stock plus the deltas of
\* all successful adjusts (for a product whose counter no product update has
\* rewritten).
C26_NoOversell ==
  \A p \in Products \ counterRewritten :
    ReservedUnits(p) <= initialQuantity[p] + returned.adjustSum[p]

\* C27: the distinct statuses an order passes through form a path in the
\* order transition table: every step that changes an order's status moves
\* it to an allowed next status of the status it had, also when updateStatus
\* and createShipment calls on the order overlap.
C27_StatusPathInTable ==
  [][\A orderId \in DOMAIN orders :
       orders'[orderId].status # orders[orderId].status
         => orders'[orderId].status \in AllowedNext(orders[orderId].status)
    ]_vars

\* C29: the most recently appended history row of an order carries the
\* order's current status.
C29_LastHistoryRowIsCurrent ==
  \A orderId \in DOMAIN orders :
    /\ HistoryOf(orderId) # <<>>
    /\ HistoryOf(orderId)[Len(HistoryOf(orderId))].status = orders[orderId].status

\* C28: products.inventory is never negative, whatever the interleaving of
\* createOrder and adjust: a transaction of createOrder takes a line's
\* quantity only if the counter, at the time of the write, covers it.
C28_CounterNonNegative ==
  /\ [](\A p \in DOMAIN products : products[p].inventory >= 0)
  /\ [][\A self \in Procs :
          (StepFrom(self, "create_reserve") /\ result'[self].outcome = "ok") =>
            \A p \in Products :
              products[p].inventory >= local[self].txDecrement[p]
       ]_vars

C28_Witness ==
  /\ products["P1"].inventory = 0
  /\ inventoryItems["P1"].quantity > 0
  /\ \E k \in 1..Len(orderItems) : orderItems[k].productId = "P1"
  /\ \E self \in Procs :
       result[self].op = "createOrder" /\ result[self].outcome = "StockChanged"


==============================================================================
